---- MODULE Spec2Model ----
(***************************************************************************)
(* The admin dashboard.                                                    *)
(*                                                                         *)
(* The two AI enhancement panels (OpenAiStudio.tsx and GeminiStudio.tsx):  *)
(* the bulk enhancement batch, the single-record preview and its apply,    *)
(* seen as one state machine over the component's React state, the         *)
(* closures of the running async handlers and the hosted vocabulary table  *)
(* (specifications Spec and LiveSpec).                                     *)
(*                                                                         *)
(* The paginated full-table fetch of the list pages and of useVocabularies,*)
(* with a concurrent writer on the table (specification FetchSpec).        *)
(*                                                                         *)
(* The field-completeness classifier of the two panels and of the          *)
(* dashboard: the filters, the badges and the "Missing Fields" count over  *)
(* a list of vocabulary records (specification ClassifierSpec).            *)
(*                                                                         *)
(* The routing of a visitor through ProtectedRoute and the login page      *)
(* (specification AuthSpec).                                               *)
(*                                                                         *)
(* The blog form and its slug (specification SlugSpec).                    *)
(*                                                                         *)
(* The cleanup and parsing of an AI response (specification CleanSpec).    *)
(*                                                                         *)
(* The OpenAI panel and the image upload of a form when their API keys may *)
(* be missing (specification KeySpec).                                     *)
(*                                                                         *)
(* A list page (Resources, Blogs, Vocabulary) with its fetch, form, submit *)
(* and delete against the hosted table (specification CrudSpec).           *)
(*                                                                         *)
(* The bulk upload of vocabulary from pasted JSON (specification BulkSpec).*)
(*                                                                         *)
(* Each specification moves the variables of its own part and leaves the   *)
(* others as they are.                                                     *)
(*                                                                         *)
(* JavaScript runs a handler to its next await without interruption, so    *)
(* one action is one such segment of a handler: from a click, or from the  *)
(* return of the awaited call, down to the next await or the handler's end.*)
(***************************************************************************)
EXTENDS Integers, Sequences, FiniteSets, TLC

\* Rows of the vocabulary table held by the page.
NumVocab == 3
\* Gestures of the user after the first selection: ticking a row, Enhance, Preview,
\* Apply, Cancel, typing into an editor of the preview dialog.
MaxGestures == 3

\* const PAGE_SIZE of the paginated fetch, scaled down from the 1000 of the source.
PageSize == 2
\* Characters of a blog title.
MaxTitle == 4
\* Characters between the quotes of a JSON string of an AI response.
MaxBody == 3
\* Ids a row of the fetched table can have.
MaxRows == 6
\* Inserts and deletes of other clients while a fetch runs.
MaxWrites == 2
NumRows == 2
MaxOps == 2
MaxItems == 2
MaxUploads == 1

Ids == 1..NumVocab
RowIds == 1..MaxRows
Panels == {"openai", "gemini"}

VARIABLES
    panel,              \* which of the two studio pages is mounted
    vocabularies,       \* useVocabularies() data: ids, in query order (id descending)
    store,              \* the hosted vocabulary table: id -> data last written
    selectedVocabs,     \* useState: ids ticked in the list
    isProcessing,       \* useState
    isApplying,         \* useState (GeminiStudio only)
    progress,           \* useState: <<n, d>> stands for (n / d) * 100
    results,            \* useState: the per-record results of the batch
    showPreview,        \* useState: the preview dialog is open
    previewVocab,       \* useState: id of the previewed record, 0 for null
    enhancedData,       \* useState: proposed data, NoData for null
    bpc,                \* where handleEnhanceSelected is suspended
    selected,           \* handleEnhanceSelected: const selected
    i,                  \* handleEnhanceSelected: loop index (0-based)
    successCount,       \* handleEnhanceSelected: let successCount
    errorCount,         \* handleEnhanceSelected: let errorCount
    pendingData,        \* handleEnhanceSelected: const enhanced / finalData
    summary,            \* the final toast: <<successCount, errorCount>>, <<>> before it
    enrichCalls,        \* enrichment calls issued by the running batch, per id
    updateCalls,        \* store updates issued by the running batch, per id
    updateAcks,         \* store updates of the running batch acknowledged without error
    delays,             \* setTimeout delays taken by the running batch
    batchInvalidations, \* invalidateQueries calls made by the running batch
    previewReqs,        \* handlePreviewEnhancement: enrichment calls outstanding, per id
    typed,              \* the text last typed into the editor of the data shown, <<>> if none
    applyReq,           \* handleApplyPreview: the update outstanding, NoApply if none
    applyInvalidations, \* invalidateQueries calls made by the last apply
    gestures,           \* clicks of the user so far
    apiKey,             \* import.meta.env.VITE_OPENAI_API_KEY is set
    aiFetched,          \* a request has been sent to the AI endpoint since the page mounted
    \* the paginated fetch
    rows,               \* the hosted table: the ids of its rows
    stable,             \* the rows in the table ever since the fetch began
    allData,            \* let allData: the rows accumulated, as ids
    from,               \* let from
    to,                 \* let to
    fpc,                \* the fetch: awaiting a page ("query"), returned ("done"), thrown ("failed")
    queries,            \* the range queries answered so far: <<from, to, rows returned>>
    writes,             \* inserts and deletes of other clients since the fetch began
    midWrites,          \* those of them made after the first page was returned
    \* the classifier
    vocabList,          \* the vocabulary records loaded, as records of their fields
    filterType,         \* useState: the missing-field filter
    filterPos,          \* useState: the part-of-speech filter
    filteredVocabs,     \* filterVocabularies(): the records listed by the panel
    shownBadges,        \* the missing-field badges rendered, per listed record
    incomplete,         \* Dashboard: counts.incomplete
    countsLoading,      \* Dashboard: counts.loading
    \* authentication and routing
    session,            \* AuthContext: a session exists
    authLoading,        \* AuthContext: loading
    location,           \* the router's location: its pathname
    locState,           \* location.state.from.pathname, "none" without it
    loginLoading,       \* Login: useState loading
    signing,            \* handleLogin awaits signInWithPassword
    loginFrom,          \* handleLogin: const from
    signResult,         \* the answer to the last sign-in: "none", "ok", "error"
    \* the blog form
    formTitle,          \* Blogs: formData.title, a sequence of characters
    formSlug,           \* Blogs: formData.slug
    editingItem,        \* Blogs: editingItem is not null
    payload,            \* handleSubmit: the payload of the awaited insert or update
    blogRow,            \* the row of the blogs table the form writes
    \* the AI response
    aiText,             \* what the AI wrote: a JSON text or something else
    fence,              \* how it wrapped it: "bare", "json" or "plain" fences
    cleanResult,        \* what the caller got: NotCalled, a parsed value, a thrown error
    \* the image upload of a form
    imgKey,             \* import.meta.env.VITE_IMGBB_API_KEY is set
    isUploading,        \* useState
    thumbnail,          \* formData.thumbnail_url (Resources: thumbnail_path)
    upc,                \* handleImageUpload: "idle", "pending", or how it ended
    imgFetched,         \* a request has been sent to the image host
    \* a list page (Resources, Blogs, Vocabulary) and its table
    dbRows,             \* the hosted table: the ids of its rows
    items,              \* useState: the list the page holds (ids)
    loading,            \* useState loading
    fetches,            \* the fetches of the table in issue order
    isDialogOpen,       \* useState
    formData,           \* useState: "" as initialised, "typed" once filled
    editingId,          \* editingItem?.id, 0 for null
    submitting,         \* useState
    submitReq,          \* the awaited insert or update of handleSubmit
    deletingId,         \* useState, 0 for null
    dels,               \* id -> the awaited delete of handleDelete(id)
    ops,                \* the inserts, updates and deletes the user has started
    \* the bulk upload of vocabulary
    jsonInput,          \* useState: the pasted text, by what JSON.parse makes of it
    previewData,        \* useState
    uploading,          \* useState
    bulkError,          \* useState error is not null
    insertCalls,        \* the payloads of the insert calls made so far
    bulkReq,            \* the awaited insert of handleUpload
    onSuccessCalls      \* how often onSuccess() was called

batchVars == <<bpc, selected, i, successCount, errorCount, pendingData, summary,
               enrichCalls, updateCalls, updateAcks, delays, batchInvalidations>>
previewVars == <<showPreview, previewVocab, enhancedData, previewReqs, typed>>
applyVars == <<applyReq, applyInvalidations, isApplying>>
studioVars == <<panel, vocabularies, store, selectedVocabs, isProcessing, progress, results,
                batchVars, previewVars, applyVars, gestures, apiKey, aiFetched>>
fetchVars == <<rows, stable, allData, from, to, fpc, queries, writes, midWrites>>
classifierVars == <<vocabList, filterType, filterPos, filteredVocabs, shownBadges,
                    incomplete, countsLoading>>
authVars == <<session, authLoading, location, locState, loginLoading, signing, loginFrom,
              signResult>>
blogVars == <<formTitle, formSlug, editingItem, payload, blogRow>>
cleanVars == <<aiText, fence, cleanResult>>
uploadVars == <<imgKey, isUploading, thumbnail, upc, imgFetched>>
crudVars == <<dbRows, items, loading, fetches, isDialogOpen, formData, editingId,
              submitting, submitReq, deletingId, dels, ops>>
bulkVars == <<jsonInput, previewData, uploading, bulkError, insertCalls, bulkReq,
              onSuccessCalls>>
\* The parts that the studio, the fetch, the classifier, the routing and the blog
\* form all leave alone.
otherParts == <<cleanVars, uploadVars, crudVars, bulkVars>>
\* What the studio pages never touch.
otherPages == <<fetchVars, classifierVars, authVars, blogVars, otherParts>>
\* What a fetch never touches.
offFetch == <<studioVars, classifierVars, authVars, blogVars, otherParts>>
\* What the filters and the dashboard count never touch.
offClassifier == <<studioVars, fetchVars, authVars, blogVars, otherParts>>
\* What the routing never touches.
offAuth == <<studioVars, fetchVars, classifierVars, blogVars, otherParts>>
\* What the blog form never touches (the routing apart).
offBlog == <<studioVars, fetchVars, classifierVars, otherParts>>
vars == <<studioVars, otherPages>>

----------------------------------------------------------------------------
(* Values *)

NoData == [for |-> 0, via |-> "none", edit |-> <<>>]
\* What an enrichment call returns: identified by the record it was asked for and
\* by the handler that asked. edit is <<v>> once the user has put the value v into
\* a field of it through the field's editor, and <<>> before.
Data(id, via) == [for |-> id, via |-> via, edit |-> <<>>]
NoApply == [id |-> 0, data |-> NoData]

\* e.target.value of an editor's onChange, as the characters typed: the text a and
\* the text "a" with its double quotes.
EditorTexts == {<<"a">>, <<"\"", "a", "\"">>}

\* JSON.parse(text) for a text of letters and double quotes, where the only JSON
\* values that can be spelled are string literals: <<v>> for the text of the string literal of v, <<>> when
\* JSON.parse throws.
JSONParse(text) ==
    IF /\ Len(text) >= 2
       /\ text[1] = "\"" /\ text[Len(text)] = "\""
       /\ \A k \in 2..(Len(text) - 1) : text[k] # "\""
    THEN <<SubSeq(text, 2, Len(text) - 1)>>
    ELSE <<>>

\* A thrown value: an Error instance with its message, or any other object.
Thrown(isErr, msg) == [isError |-> isErr, message |-> msg]

\* enhanceVocabulary: if (!apiKey) throw new Error('OpenAI API Key not found')
MissingKey == Thrown(TRUE, "OpenAI API Key not found")

\* The enrichment call sends its request whatever the key.
FetchesAlways(pn, key) == TRUE

\* The enrichment call gets as far as its fetch: enhanceVocabulary throws before it
\* when the key is not set; GeminiStudio sends its request with or without a key.
Fetches(pn, key) == pn = "gemini" \/ key

\* What the enrichment of one record can throw once its request is sent.
EnrichErrors(p) ==
    IF p = "openai"
    THEN {Thrown(TRUE, "AI Enhancement failed")}
    ELSE {Thrown(TRUE, "Enhancement failed")}

\* The error object the store client hands back in { error }: the handler throws it
\* as it is; whether it is an Error instance is the client library's choice.
UpdateErrors == {Thrown(b, "store rejected the update") : b \in BOOLEAN}

Zeroes == [id \in Ids |-> 0]

Pending(id) == [id |-> id, status |-> "pending", error |-> "", enhanced |-> NoData]

\* vocabularies.filter(v => selectedVocabs.has(v.id))
RECURSIVE FilterSelected(_, _)
FilterSelected(list, sel) ==
    IF list = <<>> THEN <<>>
    ELSE IF Head(list) \in sel
         THEN <<Head(list)>> \o FilterSelected(Tail(list), sel)
         ELSE FilterSelected(Tail(list), sel)

\* ProgressOf with the page's whole list as the total.
ProgressOfAllRows(n, total) == <<n, NumVocab>>

\* ((i) / selected.length) * 100, kept as the fraction <<i, selected.length>>
ProgressOf(n, total) == <<n, total>>
\* setProgress(0)
ProgressZero == <<0, 1>>

\* for (let i = 0; i < selected.length; i++)
LoopCond(j, len) == j < len

\* DelayNeeded without the test for the last record.
DelayAfterEvery(j, len) == TRUE

\* if (i < selected.length - 1) await new Promise(resolve => setTimeout(resolve, ...))
DelayNeeded(j, len) == j < len - 1

\* MarkProcessing without its test of the id: every record becomes processing.
MarkAllProcessing(res, id) ==
    [p \in DOMAIN res |-> [res[p] EXCEPT !.status = "processing"]]

\* setResults(prev => prev.map(r => r.id === vocab.id ? { ...r, status: "processing" } : r))
MarkProcessing(res, id) ==
    [p \in DOMAIN res |->
        IF res[p].id = id THEN [res[p] EXCEPT !.status = "processing"] ELSE res[p]]

\* setResults(prev => prev.map(r => r.id === vocab.id ? { ...r, status: "success", enhanced } : r))
\* (GeminiStudio's result entry has no enhanced field)
MarkSuccess(pn, res, id, data) ==
    [p \in DOMAIN res |->
        IF res[p].id = id
        THEN [res[p] EXCEPT !.status = "success",
                            !.enhanced = IF pn = "openai" THEN data ELSE @]
        ELSE res[p]]

\* The text stored in the result entry of a failed record.
\*   OpenAiStudio: error instanceof Error ? error.message : "Unknown error"
\*   GeminiStudio: "Failed"
ErrorText(pn, e) ==
    IF pn = "openai"
    THEN IF e.isError THEN e.message ELSE "Unknown error"
    ELSE "Failed"

\* setResults(prev => prev.map(r => r.id === vocab.id ? { ...r, status: "error", error: ... } : r))
MarkError(pn, res, id, e) ==
    [p \in DOMAIN res |->
        IF res[p].id = id
        THEN [res[p] EXCEPT !.status = "error", !.error = ErrorText(pn, e)]
        ELSE res[p]]

\* StoreUpdate without its .eq('id', ...) filter: every row is written.
StoreUpdateAllRows(st, id, data) == [x \in DOMAIN st |-> data]

\* .from('vocabulary').update(data).eq('id', id), acknowledged without error
StoreUpdate(st, id, data) == [st EXCEPT ![id] = data]

----------------------------------------------------------------------------
(* The state after the page has mounted and the vocabulary query has loaded *)

\* .order('id', { ascending: false })
QueryOrder == [p \in 1..NumVocab |-> NumVocab + 1 - p]

StudioInit ==
    /\ panel \in Panels
    /\ vocabularies = QueryOrder
    /\ store = [id \in Ids |-> Data(id, "orig")]
    /\ selectedVocabs \in SUBSET Ids
    /\ isProcessing = FALSE
    /\ isApplying = FALSE
    /\ progress = ProgressZero
    /\ results = <<>>
    /\ showPreview = FALSE
    /\ previewVocab = 0
    /\ enhancedData = NoData
    /\ bpc = "idle"
    /\ selected = <<>>
    /\ i = 0
    /\ successCount = 0
    /\ errorCount = 0
    /\ pendingData = NoData
    /\ summary = <<>>
    /\ enrichCalls = Zeroes
    /\ updateCalls = Zeroes
    /\ updateAcks = Zeroes
    /\ delays = 0
    /\ batchInvalidations = 0
    /\ previewReqs = Zeroes
    /\ typed = <<>>
    /\ applyReq = NoApply
    /\ applyInvalidations = 0
    /\ gestures = 0
    /\ apiKey \in (IF panel = "openai" THEN BOOLEAN ELSE {TRUE})
    /\ aiFetched = FALSE

\* .order('id', { ascending: false }) over a set of rows: the k-th row is the one
\* with k rows at or above it.
Desc(S) ==
    [k \in 1..Cardinality(S) |-> CHOOSE x \in S : Cardinality({y \in S : y >= x}) = k]

\* .range(f, t): the rows at the 0-based offsets f..t of the ordered result
Range(tbl, f, t) ==
    SubSeq(tbl, f + 1, IF t + 1 < Len(tbl) THEN t + 1 ELSE Len(tbl))

\* The range queries of a fetch over n rows that nothing interrupted.
QueriesOf(n) ==
    [k \in 1..(n \div PageSize + 1) |->
        <<(k - 1) * PageSize, k * PageSize - 1,
          IF k * PageSize <= n THEN PageSize ELSE n - (k - 1) * PageSize>>]

\* The vocabulary query of the studio page has loaded its list.
FetchLoaded ==
    /\ rows = Ids
    /\ stable = Ids
    /\ allData = QueryOrder
    /\ from = (NumVocab \div PageSize) * PageSize
    /\ to = from + PageSize - 1
    /\ fpc = "done"
    /\ queries = QueriesOf(NumVocab)
    /\ writes = 0
    /\ midWrites = 0

\* No list is loaded into the filters and the dashboard has not counted.
ClassifierIdle ==
    /\ vocabList = <<>>
    /\ filterType = "all"
    /\ filterPos = "all"
    /\ filteredVocabs = <<>>
    /\ shownBadges = <<>>
    /\ incomplete = 0
    /\ countsLoading = TRUE

\* The visitor is signed in and on the page of the given path.
SignedInAt(path) ==
    /\ session = TRUE
    /\ authLoading = FALSE
    /\ location = path
    /\ locState = "none"
    /\ loginLoading = FALSE
    /\ signing = FALSE
    /\ loginFrom = "/"
    /\ signResult = "none"

\* <Route path="/openai-studio" ...>, <Route path="/gemini-studio" ...>
StudioPath == IF panel = "openai" THEN "/openai-studio" ELSE "/gemini-studio"

\* No payload is awaited; no row is written yet.
NoPayload == [title |-> <<>>, slug |-> <<"none">>]

\* Blogs: the initial formData, editingItem = null, nothing submitted.
BlogIdle ==
    /\ formTitle = <<>>
    /\ formSlug = <<>>
    /\ editingItem = FALSE
    /\ payload = NoPayload
    /\ blogRow = NoPayload

\* No AI response has been received.
NotCalled == [t |-> "none", v |-> <<>>]

CleanIdle ==
    /\ aiText = <<>>
    /\ fence = "bare"
    /\ cleanResult = NotCalled

\* The parts outside the studio, the fetch, the classifier, the routing and the blog
\* form, at rest.
\* A form whose image input has not been used.
UploadIdle ==
    /\ imgKey = TRUE
    /\ isUploading = FALSE
    /\ thumbnail = ""
    /\ upc = "idle"
    /\ imgFetched = FALSE

\* No request of a mutation is awaited.
NoReq == [st |-> "none", id |-> 0]

\* A list page that is not mounted.
CrudIdle ==
    /\ dbRows = {}
    /\ items = {}
    /\ loading = FALSE
    /\ fetches = <<>>
    /\ isDialogOpen = FALSE
    /\ formData = ""
    /\ editingId = 0
    /\ submitting = FALSE
    /\ submitReq = NoReq
    /\ deletingId = 0
    /\ dels = <<>>
    /\ ops = 0

\* Nothing pasted.
NoInput == [t |-> "empty", v |-> <<>>]

\* The bulk upload as it is mounted.
BulkIdle ==
    /\ jsonInput = NoInput
    /\ previewData = <<>>
    /\ uploading = FALSE
    /\ bulkError = FALSE
    /\ insertCalls = <<>>
    /\ bulkReq = "none"
    /\ onSuccessCalls = 0

PartsIdle == CleanIdle /\ UploadIdle /\ CrudIdle /\ BulkIdle

Init ==
    /\ StudioInit /\ FetchLoaded /\ ClassifierIdle /\ SignedInAt(StudioPath) /\ BlogIdle
    /\ PartsIdle

----------------------------------------------------------------------------
(* Selection *)

\* The preview dialog is modal: while it is open the page under it takes no clicks.
PageEnabled == ~showPreview

\* One more click of the user.
Click ==
    /\ gestures < MaxGestures
    /\ gestures' = gestures + 1

toggleSelection(id) ==
    /\ PageEnabled
    /\ Click
    /\ selectedVocabs' = IF id \in selectedVocabs
                         THEN selectedVocabs \ {id}
                         ELSE selectedVocabs \cup {id}
    /\ UNCHANGED <<panel, apiKey, otherPages, vocabularies, store, isProcessing, progress, results,
                   batchVars, aiFetched, previewVars, applyVars>>

----------------------------------------------------------------------------
(* handleEnhanceSelected *)

\* FinishBatch without setIsProcessing(false).
FinishBatchStillProcessing(j, res, prog, calls, inv, sc, ec) ==
    /\ i' = j
    /\ aiFetched' = aiFetched
    /\ results' = res
    /\ progress' = prog
    /\ enrichCalls' = calls
    /\ isProcessing' = isProcessing
    /\ batchInvalidations' = inv + 1
    /\ summary' = <<sc, ec>>
    /\ bpc' = "idle"

\* The end of the handler, after the loop: setIsProcessing(false), the one
\* invalidateQueries, and the summary toast.
FinishBatch(j, res, prog, calls, inv, sc, ec) ==
    /\ i' = j
    /\ aiFetched' = aiFetched
    /\ results' = res
    /\ progress' = prog
    /\ enrichCalls' = calls
    /\ isProcessing' = FALSE
    /\ batchInvalidations' = inv + 1
    /\ summary' = <<sc, ec>>
    /\ bpc' = "idle"

\* BeginRecord with the enrichment call of the next record issued ahead of its turn.
BeginRecordPrefetch(j, sel, res, calls, inv, proc) ==
    /\ i' = j
    /\ aiFetched' = (aiFetched \/ Fetches(panel, apiKey))
    /\ results' = MarkProcessing(res, sel[j + 1])
    /\ progress' = ProgressOf(j, Len(sel))
    /\ enrichCalls' = [id \in Ids |->
            IF id = sel[j + 1] \/ (j + 2 <= Len(sel) /\ id = sel[j + 2])
            THEN calls[id] + 1 ELSE calls[id]]
    /\ isProcessing' = proc
    /\ batchInvalidations' = inv
    /\ summary' = <<>>
    /\ bpc' = "enrich"

\* The head of one iteration, down to the await of the enrichment call: the record
\* becomes processing, progress is i / length, the enrichment call is issued.
BeginRecord(j, sel, res, calls, inv, proc) ==
    /\ i' = j
    /\ aiFetched' = (aiFetched \/ Fetches(panel, apiKey))
    /\ results' = MarkProcessing(res, sel[j + 1])
    /\ progress' = ProgressOf(j, Len(sel))
    /\ enrichCalls' = [calls EXCEPT ![sel[j + 1]] = @ + 1]
    /\ isProcessing' = proc
    /\ batchInvalidations' = inv
    /\ summary' = <<>>
    /\ bpc' = "enrich"

\* The loop test with the index at j: another iteration, or the end of the handler.
Advance(j, sel, res, prog, calls, inv, proc, sc, ec) ==
    IF LoopCond(j, Len(sel))
    THEN BeginRecord(j, sel, res, calls, inv, proc)
    ELSE FinishBatch(j, res, prog, calls, inv, sc, ec)

\* AfterRecord with invalidateQueries called inside the loop, after each record.
AfterRecordInvalidateEach(res, sc, ec) ==
    IF DelayNeeded(i, Len(selected))
    THEN /\ results' = res
         /\ progress' = ProgressOf(i + 1, Len(selected))
         /\ delays' = delays + 1
         /\ bpc' = "delay"
         /\ batchInvalidations' = batchInvalidations + 1
         /\ UNCHANGED <<i, enrichCalls, aiFetched, isProcessing, summary>>
    ELSE /\ Advance(i + 1, selected, res, ProgressOf(i + 1, Len(selected)),
                    enrichCalls, batchInvalidations, isProcessing, sc, ec)
         /\ UNCHANGED delays

\* AfterRecord with the loop left at the first record that failed.
AfterRecordAbortOnError(res, sc, ec) ==
    IF res[i + 1].status = "error"
    THEN /\ FinishBatch(i + 1, res, ProgressOf(i + 1, Len(selected)), enrichCalls,
                        batchInvalidations, sc, ec)
         /\ UNCHANGED delays
    ELSE IF DelayNeeded(i, Len(selected))
    THEN /\ results' = res
         /\ progress' = ProgressOf(i + 1, Len(selected))
         /\ delays' = delays + 1
         /\ bpc' = "delay"
         /\ UNCHANGED <<i, enrichCalls, aiFetched, isProcessing, batchInvalidations, summary>>
    ELSE /\ Advance(i + 1, selected, res, ProgressOf(i + 1, Len(selected)),
                    enrichCalls, batchInvalidations, isProcessing, sc, ec)
         /\ UNCHANGED delays

\* The rest of an iteration after its try/catch: progress is (i + 1) / length, then
\* the delay unless this was the last record, then i++ and the loop test.
AfterRecord(res, sc, ec) ==
    IF DelayNeeded(i, Len(selected))
    THEN /\ results' = res
         /\ progress' = ProgressOf(i + 1, Len(selected))
         /\ delays' = delays + 1
         /\ bpc' = "delay"
         /\ UNCHANGED <<i, enrichCalls, aiFetched, isProcessing, batchInvalidations, summary>>
    ELSE /\ Advance(i + 1, selected, res, ProgressOf(i + 1, Len(selected)),
                    enrichCalls, batchInvalidations, isProcessing, sc, ec)
         /\ UNCHANGED delays

\* The Enhance button: disabled={selectedVocabs.size === 0 || isProcessing}
EnhanceEnabled == selectedVocabs # {} /\ ~isProcessing

\* Click on Enhance: the handler down to the first enrichment call.
StartBatch ==
    /\ PageEnabled
    /\ EnhanceEnabled
    /\ Click
    /\ selected' = FilterSelected(vocabularies, selectedVocabs)
    /\ successCount' = 0
    /\ errorCount' = 0
    /\ pendingData' = NoData
    /\ updateCalls' = Zeroes
    /\ updateAcks' = Zeroes
    /\ delays' = 0
    /\ Advance(0, selected',
               [p \in 1..Len(selected') |-> Pending(selected'[p])],
               ProgressZero, Zeroes, 0, TRUE, 0, 0)
    /\ UNCHANGED <<panel, apiKey, otherPages, vocabularies, store, selectedVocabs, previewVars, applyVars>>

\* CatchRecord with one more attempt for a record whose first attempt failed.
CatchRecordRetry(e) ==
    IF enrichCalls[selected[i + 1]] < 2
    THEN /\ enrichCalls' = [enrichCalls EXCEPT ![selected[i + 1]] = @ + 1]
         /\ bpc' = "enrich"
         /\ aiFetched' = (aiFetched \/ Fetches(panel, apiKey))
         /\ UNCHANGED <<i, results, progress, delays, isProcessing, batchInvalidations,
                        summary, successCount, errorCount>>
    ELSE /\ errorCount' = errorCount + 1
         /\ AfterRecord(MarkError(panel, results, selected[i + 1], e),
                        successCount, errorCount + 1)
         /\ UNCHANGED successCount

\* catch (error): the record becomes error, errorCount++, then the rest of the iteration.
CatchRecord(e) ==
    /\ errorCount' = errorCount + 1
    /\ AfterRecord(MarkError(panel, results, selected[i + 1], e),
                   successCount, errorCount + 1)
    /\ UNCHANGED successCount

\* The enrichment call of the current record returns: its data goes into an update
\* of that record by primary key.
EnrichOk ==
    /\ bpc = "enrich"
    /\ Fetches(panel, apiKey)
    /\ pendingData' = Data(selected[i + 1], "batch")
    /\ updateCalls' = [updateCalls EXCEPT ![selected[i + 1]] = @ + 1]
    /\ bpc' = "update"
    /\ UNCHANGED <<gestures, panel, apiKey, otherPages, vocabularies, store, selectedVocabs, isProcessing, progress,
                   results, selected, i, successCount, errorCount, summary, enrichCalls,
                   aiFetched,
                   updateAcks, delays, batchInvalidations, previewVars, applyVars>>

\* The enrichment call of the current record throws.
EnrichFail ==
    /\ bpc = "enrich"
    /\ \E e \in (IF Fetches(panel, apiKey) THEN EnrichErrors(panel) ELSE {MissingKey}) :
            CatchRecord(e)
    /\ UNCHANGED <<gestures, panel, apiKey, otherPages, vocabularies, store, selectedVocabs, selected, pendingData,
                   updateCalls, updateAcks, previewVars, applyVars>>

\* The update of the current record is acknowledged: the record becomes success.
UpdateOk ==
    /\ bpc = "update"
    /\ store' = StoreUpdate(store, selected[i + 1], pendingData)
    /\ updateAcks' = [updateAcks EXCEPT ![selected[i + 1]] = @ + 1]
    /\ successCount' = successCount + 1
    /\ AfterRecord(MarkSuccess(panel, results, selected[i + 1], pendingData),
                   successCount + 1, errorCount)
    /\ UNCHANGED <<gestures, panel, apiKey, otherPages, vocabularies, selectedVocabs, selected, errorCount, pendingData,
                   updateCalls, previewVars, applyVars>>

\* The store rejects the update of the current record: if (updateError) throw updateError
UpdateFail ==
    /\ bpc = "update"
    /\ \E e \in UpdateErrors : CatchRecord(e)
    /\ UNCHANGED <<gestures, panel, apiKey, otherPages, vocabularies, store, selectedVocabs, selected, pendingData,
                   updateCalls, updateAcks, previewVars, applyVars>>

\* The delay between two records has elapsed: i++ and the loop test.
DelayElapsed ==
    /\ bpc = "delay"
    /\ Advance(i + 1, selected, results, progress, enrichCalls, batchInvalidations,
               isProcessing, successCount, errorCount)
    /\ UNCHANGED <<gestures, panel, apiKey, otherPages, vocabularies, store, selectedVocabs, selected, successCount,
                   errorCount, pendingData, updateCalls, updateAcks, delays,
                   previewVars, applyVars>>

----------------------------------------------------------------------------
(* handlePreviewEnhancement and handleApplyPreview *)

\* Click on a row's Preview button: the handler down to its enrichment call.
Preview(id) ==
    /\ PageEnabled
    /\ Click
    /\ previewVocab' = id
    /\ enhancedData' = NoData
    /\ showPreview' = TRUE
    /\ typed' = <<>>
    /\ previewReqs' = [previewReqs EXCEPT ![id] = @ + 1]
    /\ aiFetched' = (aiFetched \/ Fetches(panel, apiKey))
    /\ UNCHANGED <<panel, apiKey, otherPages, vocabularies, store, selectedVocabs, isProcessing, progress,
                   results, batchVars, applyVars>>

\* PreviewOk with the proposed data written to the record at once.
PreviewOkPersist(id) ==
    /\ previewReqs[id] > 0
    /\ Fetches(panel, apiKey)
    /\ previewReqs' = [previewReqs EXCEPT ![id] = @ - 1]
    /\ enhancedData' = Data(id, "preview")
    /\ typed' = <<>>
    /\ store' = StoreUpdate(store, id, Data(id, "preview"))
    /\ UNCHANGED <<gestures, panel, apiKey, otherPages, vocabularies, selectedVocabs, isProcessing, progress,
                   results, batchVars, aiFetched, applyVars, showPreview, previewVocab>>

\* The enrichment call of a preview for record id returns: setEnhancedData(enhanced)
PreviewOk(id) ==
    /\ previewReqs[id] > 0
    /\ Fetches(panel, apiKey)
    /\ previewReqs' = [previewReqs EXCEPT ![id] = @ - 1]
    /\ enhancedData' = Data(id, "preview")
    /\ typed' = <<>>
    /\ UNCHANGED <<gestures, panel, apiKey, otherPages, vocabularies, store, selectedVocabs, isProcessing, progress,
                   results, batchVars, aiFetched, applyVars, showPreview, previewVocab>>

\* The enrichment call of a preview for record id throws: setShowPreview(false)
PreviewFail(id) ==
    /\ previewReqs[id] > 0
    /\ previewReqs' = [previewReqs EXCEPT ![id] = @ - 1]
    /\ showPreview' = FALSE
    /\ UNCHANGED <<gestures, panel, apiKey, otherPages, vocabularies, store, selectedVocabs, isProcessing, progress,
                   results, batchVars, aiFetched, applyVars, enhancedData, previewVocab, typed>>

\* Cancel, or the dialog's own close: onOpenChange={setShowPreview}
CloseDialog ==
    /\ showPreview
    /\ Click
    /\ showPreview' = FALSE
    /\ UNCHANGED <<panel, apiKey, otherPages, vocabularies, store, selectedVocabs, isProcessing, progress,
                   results, batchVars, aiFetched, applyVars, enhancedData, previewVocab, previewReqs,
                   typed>>

\* The user types into the editor of a field of the proposed data.
\*   OpenAiStudio: try { parsed = JSON.parse(e.target.value);
\*                       setEnhancedData(prev => ({ ...prev, [key]: parsed })) } catch { }
\*   GeminiStudio: the textarea is readOnly
EditPreview(text) ==
    /\ panel = "openai"
    /\ showPreview
    /\ enhancedData # NoData
    /\ Click
    /\ typed' = text
    /\ enhancedData' = IF JSONParse(text) # <<>>
                       THEN [enhancedData EXCEPT !.edit = JSONParse(text)]
                       ELSE enhancedData
    /\ UNCHANGED <<panel, apiKey, otherPages, vocabularies, store, selectedVocabs, isProcessing, progress,
                   results, batchVars, aiFetched, applyVars, showPreview, previewVocab, previewReqs>>

\* ApplyEnabled without the test of a busy flag.
ApplyEnabledWhileBusy == showPreview /\ enhancedData # NoData

\* The Apply button of the dialog.
\*   OpenAiStudio: disabled={!enhancedData || Object.keys(enhancedData).length === 0 || isProcessing}
\*   GeminiStudio: disabled={!enhancedData || isApplying}
ApplyEnabled ==
    /\ showPreview
    /\ enhancedData # NoData
    /\ IF panel = "openai" THEN ~isProcessing ELSE ~isApplying

\* Click on Apply: the handler down to the await of the update.
ApplyStart ==
    /\ ApplyEnabled
    /\ Click
    /\ previewVocab # 0 /\ enhancedData # NoData
    /\ applyReq' = [id |-> previewVocab, data |-> enhancedData]
    /\ applyInvalidations' = 0
    /\ IF panel = "openai"
       THEN isProcessing' = TRUE /\ UNCHANGED isApplying
       ELSE isApplying' = TRUE /\ UNCHANGED isProcessing
    /\ UNCHANGED <<panel, apiKey, otherPages, vocabularies, store, selectedVocabs, progress, results,
                   batchVars, aiFetched, previewVars>>

\* finally: setIsProcessing(false) in OpenAiStudio, setIsApplying(false) in GeminiStudio
ApplyFinally ==
    IF panel = "openai"
    THEN isProcessing' = FALSE /\ UNCHANGED isApplying
    ELSE isApplying' = FALSE /\ UNCHANGED isProcessing

\* The update of apply is acknowledged: invalidateQueries, the dialog closes.
ApplyOk ==
    /\ applyReq # NoApply
    /\ store' = StoreUpdate(store, applyReq.id, applyReq.data)
    /\ applyInvalidations' = applyInvalidations + 1
    /\ showPreview' = FALSE
    /\ ApplyFinally
    /\ applyReq' = NoApply
    /\ UNCHANGED <<gestures, panel, apiKey, otherPages, vocabularies, selectedVocabs, progress, results, batchVars, aiFetched,
                   previewVocab, enhancedData, previewReqs, typed>>

\* ApplyFail with the success path taken all the same: the cache is invalidated and
\* the dialog closed although the store rejected the update.
ApplyFailInvalidate ==
    /\ applyReq # NoApply
    /\ applyInvalidations' = applyInvalidations + 1
    /\ showPreview' = FALSE
    /\ ApplyFinally
    /\ applyReq' = NoApply
    /\ UNCHANGED <<gestures, panel, apiKey, otherPages, vocabularies, store, selectedVocabs, progress, results,
                   batchVars, aiFetched, previewVocab, enhancedData, previewReqs, typed>>

\* The store rejects the update of apply.
ApplyFail ==
    /\ applyReq # NoApply
    /\ ApplyFinally
    /\ applyReq' = NoApply
    /\ UNCHANGED <<gestures, panel, apiKey, otherPages, vocabularies, store, selectedVocabs, progress, results,
                   batchVars, aiFetched, previewVars, applyInvalidations>>

----------------------------------------------------------------------------

Next ==
    \/ \E id \in Ids : toggleSelection(id)
    \/ StartBatch
    \/ EnrichOk
    \/ EnrichFail
    \/ UpdateOk
    \/ UpdateFail
    \/ DelayElapsed
    \/ \E id \in Ids : Preview(id)
    \/ \E id \in Ids : PreviewOk(id)
    \/ \E id \in Ids : PreviewFail(id)
    \/ CloseDialog
    \/ \E text \in EditorTexts : EditPreview(text)
    \/ ApplyStart
    \/ ApplyOk
    \/ ApplyFail

Spec == Init /\ [][Next]_vars

\* The call a running batch awaits returns, and its timer fires: the batch is never
\* left suspended for ever. (The handler awaits one thing at a time, so this is one
\* fairness condition on the step that resumes it.)
ResumeBatch == EnrichOk \/ EnrichFail \/ UpdateOk \/ UpdateFail \/ DelayElapsed

\* The page after Select All (selectAll: every listed row ticked).
LiveInit == Init /\ selectedVocabs = Ids

LiveSpec == LiveInit /\ [][Next]_vars /\ WF_vars(ResumeBatch)

----------------------------------------------------------------------------
(* The paginated full-table fetch: useVocabularies, fetchVocabulary,        *)
(* fetchResources, fetchBlogs. One action is the answer to one range query  *)
(* and the handler's run down to the next query or to its end.              *)

\* A studio page on which nothing is ticked and nothing runs.
StudioIdle == StudioInit /\ panel = "openai" /\ selectedVocabs = {}

\* The handler down to its first query, over any table: let allData = [],
\* from = 0, to = PAGE_SIZE - 1.
FetchInit ==
    /\ StudioIdle
    /\ ClassifierIdle
    /\ SignedInAt("/vocabulary")
    /\ BlogIdle
    /\ PartsIdle
    /\ rows \in SUBSET RowIds
    /\ stable = rows
    /\ allData = <<>>
    /\ from = 0
    /\ to = PageSize - 1
    /\ fpc = "query"
    /\ queries = <<>>
    /\ writes = 0
    /\ midWrites = 0

\* LastPage with a full page taken for the last one.
LastPageLoose(data) == Len(data) <= PageSize

\* if (data.length < PAGE_SIZE) break
LastPage(data) == Len(data) < PageSize

\* NextFrom with pages that overlap by one row.
NextFromOverlap(f) == f + PageSize - 1

\* from += PAGE_SIZE
NextFrom(f) == f + PageSize

\* The range query is answered with its rows.
PageOk ==
    /\ fpc = "query"
    /\ LET data == Range(Desc(rows), from, to) IN
        /\ queries' = Append(queries, <<from, to, Len(data)>>)
        /\ IF Len(data) = 0
           THEN /\ fpc' = "done"
                /\ UNCHANGED <<allData, from, to>>
           ELSE /\ allData' = allData \o data
                /\ IF LastPage(data)
                   THEN /\ fpc' = "done"
                        /\ UNCHANGED <<from, to>>
                   ELSE /\ fpc' = "query"
                        /\ from' = NextFrom(from)
                        /\ to' = to + PageSize
    /\ UNCHANGED <<offFetch, rows, stable, writes, midWrites>>

\* The range query is answered with an error: if (error) throw error
PageFail ==
    /\ fpc = "query"
    /\ fpc' = "failed"
    /\ UNCHANGED <<offFetch, rows, stable, allData, from, to, queries,
                   writes, midWrites>>

\* One more write of another client while the fetch runs.
Written ==
    /\ fpc = "query"
    /\ writes < MaxWrites
    /\ writes' = writes + 1
    /\ midWrites' = IF queries # <<>> THEN midWrites + 1 ELSE midWrites

\* Another client inserts a row.
InsertRow(id) ==
    /\ id \notin rows
    /\ Written
    /\ rows' = rows \cup {id}
    /\ UNCHANGED <<offFetch, stable, allData, from, to, fpc, queries>>

\* Another client deletes a row.
DeleteRow(id) ==
    /\ id \in rows
    /\ Written
    /\ rows' = rows \ {id}
    /\ stable' = stable \ {id}
    /\ UNCHANGED <<offFetch, allData, from, to, fpc, queries>>

FetchNext ==
    \/ PageOk
    \/ PageFail
    \/ \E id \in RowIds : InsertRow(id)
    \/ \E id \in RowIds : DeleteRow(id)

\* The store answers every query.
FetchSpec == FetchInit /\ [][FetchNext]_vars /\ WF_vars(PageOk \/ PageFail)

----------------------------------------------------------------------------
(* The field-completeness classifier: hasMissingFields, filterVocabularies   *)
(* and the badges of the two panels, and the incomplete count of the         *)
(* dashboard. A field of a record is a JavaScript value, kept as its type    *)
(* and, for a string or an array, its length.                                *)

\* explanation.length < 50
ExplanationMin == 50

Null == [t |-> "null", n |-> 0]
Str(n) == [t |-> "string", n |-> n]
Arr(n) == [t |-> "array", n |-> n]
Obj == [t |-> "object", n |-> 0]

\* !v
Falsy(v) == v.t = "null" \/ (v.t = "string" /\ v.n = 0)
\* v.length
Length(v) == v.n

\* The vocabulary records: part_of_speech is "" when null or empty.
VocabRecords ==
    [part_of_speech : {"", "verb", "noun"},
     verb_forms : {Null, Obj},
     examples : {Null, Arr(0), Arr(1)},
     explanation : {Null, Str(ExplanationMin - 1), Str(ExplanationMin)},
     romanization : {Null, Str(1)},
     themes : {Null, Arr(0), Arr(1)},
     chapters : {Null, Arr(1)}]

\* A noun with every field filled in.
CompleteVocab ==
    [part_of_speech |-> "noun", verb_forms |-> Null, examples |-> Arr(1),
     explanation |-> Str(ExplanationMin), romanization |-> Str(1), themes |-> Arr(1),
     chapters |-> Arr(1)]

\* Records to go with the record under study in a list: a complete noun, the same
\* without romanization, and a verb with nothing but its two words.
SampleRecords ==
    {CompleteVocab,
     [CompleteVocab EXCEPT !.romanization = Null],
     [part_of_speech |-> "verb", verb_forms |-> Null, examples |-> Null,
      explanation |-> Null, romanization |-> Null, themes |-> Null, chapters |-> Null]}

isVerb(v) == v.part_of_speech = "verb"

\* missingVerb without the test of the part of speech.
missingVerbAnyPos(v) == Falsy(v.verb_forms)

\* part_of_speech === "verb" && !verb_forms
missingVerb(v) == isVerb(v) /\ Falsy(v.verb_forms)
\* !examples || examples.length === 0
noExamples(v) == Falsy(v.examples) \/ Length(v.examples) = 0
\* !explanation || explanation.length < 50
noExplanation(v) == Falsy(v.explanation) \/ Length(v.explanation) < ExplanationMin
\* !romanization
noRomanization(v) == Falsy(v.romanization)
\* !part_of_speech
noPos(v) == v.part_of_speech = ""
\* !themes || themes.length === 0
noThemes(v) == Falsy(v.themes) \/ Length(v.themes) = 0
\* !chapters || chapters.length === 0
noChapters(v) == Falsy(v.chapters) \/ Length(v.chapters) = 0

\* hasMissingFields of each panel.
\*   OpenAiStudio: verb_forms (of a verb), explanation, examples
\*   GeminiStudio: noVerbForms || noExamples || noExplanation || noRomanization || noPos || noThemes
hasMissingFields(pn, v) ==
    IF pn = "openai"
    THEN missingVerb(v) \/ noExplanation(v) \/ noExamples(v)
    ELSE \/ (IF isVerb(v) THEN Falsy(v.verb_forms) ELSE FALSE)
         \/ noExamples(v) \/ noExplanation(v) \/ noRomanization(v) \/ noPos(v)
         \/ noThemes(v)

\* The "missing-all-fields" branch of filterVocabularies.
\*   OpenAiStudio: noVerbForms && noExamples && noExplanation && noRomanization && noThemes,
\*                 with noVerbForms = isVerb ? !verb_forms : true
\*   GeminiStudio: hasMissingFields(v)
missingAllFields(pn, v) ==
    IF pn = "openai"
    THEN /\ (IF isVerb(v) THEN Falsy(v.verb_forms) ELSE TRUE)
         /\ noExamples(v) /\ noExplanation(v) /\ noRomanization(v) /\ noThemes(v)
    ELSE hasMissingFields(pn, v)

\* The filters of one field, offered by both panels.
FieldFilters == {"missing-verb", "missing-examples", "missing-explanation",
                 "missing-romanization", "missing-pos", "missing-themes"}

\* The entries of the filter select of each panel.
FilterTypes(pn) ==
    {"all", "missing-all-fields"} \cup FieldFilters
        \cup (IF pn = "openai" THEN {"missing-chapters"} ELSE {})

\* The entries of the part-of-speech select.
FilterPosValues == {"all", "verb", "noun"}

\* The test of the branch of filterVocabularies taken for filterType ft.
Selected(pn, ft, v) ==
    CASE ft = "missing-verb" -> missingVerb(v)
      [] ft = "missing-examples" -> noExamples(v)
      [] ft = "missing-explanation" -> noExplanation(v)
      [] ft = "missing-romanization" -> noRomanization(v)
      [] ft = "missing-pos" -> noPos(v)
      [] ft = "missing-themes" -> noThemes(v)
      [] ft = "missing-chapters" -> noChapters(v)
      [] ft = "missing-all-fields" -> missingAllFields(pn, v)
      [] ft = "all" -> hasMissingFields(pn, v)

\* filterVocabularies() with an empty search box.
filterVocabularies(pn, list, fp, ft) ==
    LET Keep(v) == (fp = "all" \/ v.part_of_speech = fp) /\ Selected(pn, ft, v)
    IN SelectSeq(list, Keep)

\* The badges a panel can render, each named by the filter of its field.
\*   OpenAiStudio: Verb Forms, Examples, Explanation
\*   GeminiStudio: Pron, Expl, Examp, POS, Themes, Verb
BadgeNames(pn) ==
    IF pn = "openai"
    THEN {"missing-verb", "missing-examples", "missing-explanation"}
    ELSE FieldFilters

\* The badges rendered for a listed record.
Badges(pn, v) ==
    {b \in BadgeNames(pn) :
        CASE b = "missing-verb" -> missingVerb(v)
          [] b = "missing-examples" -> noExamples(v)
          [] b = "missing-explanation" -> noExplanation(v)
          [] b = "missing-romanization" -> noRomanization(v)
          [] b = "missing-pos" -> noPos(v)
          [] b = "missing-themes" -> noThemes(v)}

\* OpenAiStudio: missingCount, the number of the "N Issues" badge.
missingCount(v) ==
    (IF missingVerb(v) THEN 1 ELSE 0)
        + (IF noExamples(v) THEN 1 ELSE 0)
        + (IF noExplanation(v) THEN 1 ELSE 0)

\* Dashboard.fetchStats: the test of incompleteCount.
dashIncomplete(v) ==
    LET noExpl == Falsy(v.explanation) \/ Length(v.explanation) < ExplanationMin
        noEx == Falsy(v.examples) \/ (v.examples.t = "array" /\ Length(v.examples) = 0)
        noVerb == v.part_of_speech = "verb" /\ Falsy(v.verb_forms)
    IN noExpl \/ noEx \/ noVerb

\* allVocabData.filter(...).length
incompleteCount(list) == Len(SelectSeq(list, dashIncomplete))

\* The render of the list of a panel: the records listed and their badges.
Render(pn, list, fp, ft) ==
    /\ filteredVocabs' = filterVocabularies(pn, list, fp, ft)
    /\ shownBadges' = [k \in DOMAIN filterVocabularies(pn, list, fp, ft) |->
                          Badges(pn, filterVocabularies(pn, list, fp, ft)[k])]

\* A panel has mounted over a list of two records with its default filters, and
\* the dashboard has yet to count.
ClassifierInit ==
    /\ StudioInit /\ selectedVocabs = {}
    /\ FetchLoaded
    /\ SignedInAt(StudioPath)
    /\ BlogIdle
    /\ PartsIdle
    /\ vocabList \in {<<v, w>> : v \in VocabRecords, w \in SampleRecords}
    /\ filterType = "all"
    /\ filterPos = "all"
    /\ filteredVocabs = filterVocabularies(panel, vocabList, "all", "all")
    /\ shownBadges = [k \in DOMAIN filteredVocabs |-> Badges(panel, filteredVocabs[k])]
    /\ incomplete = 0
    /\ countsLoading = TRUE

\* The user picks an entry of the filter select.
setFilterType(ft) ==
    /\ ft # filterType
    /\ filterType' = ft
    /\ Render(panel, vocabList, filterPos, ft)
    /\ UNCHANGED <<offClassifier, vocabList, filterPos, incomplete, countsLoading>>

\* The user picks an entry of the part-of-speech select.
setFilterPos(fp) ==
    /\ fp # filterPos
    /\ filterPos' = fp
    /\ Render(panel, vocabList, fp, filterType)
    /\ UNCHANGED <<offClassifier, vocabList, filterType, incomplete, countsLoading>>

\* Dashboard.fetchStats has fetched the table: setCounts({ ..., incomplete, loading: false })
fetchStats ==
    /\ countsLoading
    /\ incomplete' = incompleteCount(vocabList)
    /\ countsLoading' = FALSE
    /\ UNCHANGED <<offClassifier, vocabList, filterType, filterPos, filteredVocabs,
                   shownBadges>>

ClassifierNext ==
    \/ \E ft \in FilterTypes(panel) : setFilterType(ft)
    \/ \E fp \in FilterPosValues : setFilterPos(fp)
    \/ fetchStats

ClassifierSpec == ClassifierInit /\ [][ClassifierNext]_vars

----------------------------------------------------------------------------
(* Authentication and routing: App's routes, ProtectedRoute, Login. The      *)
(* AuthContext provider is not among the sources: its session and loading    *)
(* are modelled from what the specification says of them (a session is       *)
(* obtained through the email/password sign-in call).                        *)

\* The paths of the routes inside ProtectedRoute; "/nowhere" stands for any path
\* that only path="*" matches.
ProtectedPaths == {"/", "/openai-studio", "/gemini-studio", "/vocabulary", "/bulk-upload",
                   "/resources", "/blogs", "/practice", "/settings", "/nowhere"}
Paths == ProtectedPaths \cup {"/login"}

\* ProtectedRoute without its test of the session.
ProtectedRouteNoSession(sess, load) ==
    IF load THEN "spinner" ELSE "children"

\* ProtectedRoute: if (loading) spinner; if (!session) <Navigate to="/login" ...>;
\* else the children.
ProtectedRoute(sess, load) ==
    IF load THEN "spinner"
    ELSE IF ~sess THEN "navigate"
    ELSE "children"

\* What the routes render at the location: the login page, or ProtectedRoute around
\* the page of the path.
Screen ==
    IF location = "/login" THEN "login" ELSE ProtectedRoute(session, authLoading)

\* const from = location.state?.from?.pathname || "/"
From(ls) == IF ls = "none" THEN "/" ELSE ls

\* The visitor opens the application at any path; the provider is still loading.
AuthInit ==
    /\ StudioIdle
    /\ FetchLoaded
    /\ ClassifierIdle
    /\ BlogIdle
    /\ PartsIdle
    /\ session = FALSE
    /\ authLoading = TRUE
    /\ location \in Paths
    /\ locState = "none"
    /\ loginLoading = FALSE
    /\ signing = FALSE
    /\ loginFrom = "/"
    /\ signResult = "none"

\* The provider has read the stored session, if there is one.
AuthResolved ==
    /\ authLoading
    /\ authLoading' = FALSE
    /\ session' \in (IF session THEN {TRUE} ELSE BOOLEAN)
    /\ UNCHANGED <<offAuth, location, locState, loginLoading, signing, loginFrom, signResult>>

\* The visitor follows a link or types an address. (A <Navigate> that is rendered
\* navigates before the visitor can act.) The Login component keeps its state only
\* while it stays mounted.
Visit(path) ==
    /\ Screen # "navigate"
    /\ path # location
    /\ location' = path
    /\ locState' = "none"
    /\ loginLoading' = FALSE
    /\ UNCHANGED <<offAuth, session, authLoading, signing, loginFrom, signResult>>

\* <Navigate to="/login" state={{ from: location }} replace />
Redirect ==
    /\ Screen = "navigate"
    /\ location' = "/login"
    /\ locState' = location
    /\ loginLoading' = FALSE
    /\ UNCHANGED <<offAuth, session, authLoading, signing, loginFrom, signResult>>

\* The form is submitted: handleLogin down to the await of signInWithPassword.
handleLogin ==
    /\ location = "/login"
    /\ ~loginLoading
    /\ ~signing
    /\ loginLoading' = TRUE
    /\ signing' = TRUE
    /\ loginFrom' = From(locState)
    /\ UNCHANGED <<offAuth, session, authLoading, location, locState, signResult>>

\* The sign-in call returns without error: the session exists, navigate(from,
\* { replace: true }), finally setLoading(false).
SignInOk ==
    /\ signing
    /\ signing' = FALSE
    /\ signResult' = "ok"
    /\ session' = TRUE
    /\ location' = loginFrom
    /\ locState' = "none"
    /\ loginLoading' = FALSE
    /\ UNCHANGED <<offAuth, authLoading, loginFrom>>

\* The sign-in call returns an error, or throws: a toast, finally setLoading(false).
SignInFail ==
    /\ signing
    /\ signing' = FALSE
    /\ signResult' = "error"
    /\ loginLoading' = FALSE
    /\ UNCHANGED <<offAuth, session, authLoading, location, locState, loginFrom>>

\* Sign Out in the sidebar of a page.
signOut ==
    /\ Screen = "children"
    /\ session' = FALSE
    /\ UNCHANGED <<offAuth, authLoading, location, locState, loginLoading, signing,
                   loginFrom, signResult>>

AuthNext ==
    \/ AuthResolved
    \/ \E path \in Paths : Visit(path)
    \/ Redirect
    \/ handleLogin
    \/ SignInOk
    \/ SignInFail
    \/ signOut

AuthSpec == AuthInit /\ [][AuthNext]_vars

----------------------------------------------------------------------------
(* The blog form: generateSlug and handleSubmit of the Blogs page. A string  *)
(* is a sequence of characters.                                              *)

UpperCase == <<"A", "B", "C", "D", "E", "F", "G", "H", "I", "J", "K", "L", "M", "N", "O",
               "P", "Q", "R", "S", "T", "U", "V", "W", "X", "Y", "Z", "É">>
LowerCase ==
    <<"a", "b", "c", "d", "e", "f", "g", "h", "i", "j", "k", "l", "m", "n", "o", "p",
      "q", "r", "s", "t", "u", "v", "w", "x", "y", "z", "é">>
Digits == {"0", "1", "2", "3", "4", "5", "6", "7", "8", "9"}

\* The class [a-z0-9] of the regular expression.
Alnum(c) == c \in Digits \/ \E n \in 1..26 : LowerCase[n] = c

\* String.prototype.toLowerCase, character by character.
toLowerCase(str) ==
    [n \in 1..Len(str) |->
        IF \E k \in 1..Len(UpperCase) : UpperCase[k] = str[n]
        THEN LowerCase[CHOOSE k \in 1..Len(UpperCase) : UpperCase[k] = str[n]]
        ELSE str[n]]

\* .replace(/[^a-z0-9]+/g, '-'): every maximal run of other characters becomes one
\* hyphen.
ReplaceRuns(str) ==
    LET marked == [n \in 1..Len(str) |->
                      IF Alnum(str[n]) THEN str[n]
                      ELSE IF n = 1 \/ Alnum(str[n - 1]) THEN "-"
                      ELSE "rest of run"]
    IN  SelectSeq(marked, LAMBDA c : c # "rest of run")

\* generateSlug without its last replace.
KeepEnds(str) == str

\* .replace(/(^-|-$)/g, ''): a hyphen at the start and a hyphen at the end are
\* removed.
StripEnds(str) ==
    LET a == IF str # <<>> /\ Head(str) = "-" THEN Tail(str) ELSE str
    IN  IF a # <<>> /\ a[Len(a)] = "-" THEN SubSeq(a, 1, Len(a) - 1) ELSE a

generateSlug(title) == StripEnds(ReplaceRuns(toLowerCase(title)))

\* The characters of the titles that are enumerated: an upper-case letter, a digit,
\* a space, a hyphen, a letter outside ASCII.
TitleChars == {"A", "7", " ", "-", "É"}
Titles == UNION {[1..len -> TitleChars] : len \in 0..MaxTitle}

\* The two titles that the documentation of the slug names.
MasterTitle ==
    <<"H", "o", "w", " ", "t", "o", " ", "M", "a", "s", "t", "e", "r", " ", "K", "o",
      "r", "e", "a", "n", " ", "P", "a", "r", "t", "i", "c", "l", "e", "s", "!">>
DashesTitle ==
    <<" ", " ", "L", "e", "a", "d", "i", "n", "g", "/", "T", "r", "a", "i", "l", "i",
      "n", "g", "-", "-", "D", "a", "s", "h", "e", "s", " ", " ">>

\* What the user may have typed into the Slug input; empty when left alone.
UserSlugs == {<<>>, <<"M", "y">>, <<"-", "x", "-", "-">>, <<" ">>}

\* formData.slug || generateSlug(formData.title): the empty string is falsy.
PayloadSlug(slug, title) == IF slug # <<>> THEN slug ELSE generateSlug(title)

\* The dialog is open with a title and, maybe, a slug typed in.
SlugInit ==
    /\ StudioIdle
    /\ FetchLoaded
    /\ ClassifierIdle
    /\ SignedInAt("/blogs")
    /\ PartsIdle
    /\ formTitle \in Titles \cup {MasterTitle, DashesTitle}
    /\ formSlug \in UserSlugs
    /\ editingItem = FALSE
    /\ payload = NoPayload
    /\ blogRow = NoPayload

\* onChange of the Slug input.
setFormSlug(text) ==
    /\ payload = NoPayload
    /\ text # formSlug
    /\ formSlug' = text
    /\ UNCHANGED <<offBlog, authVars, formTitle, editingItem, payload, blogRow>>

\* handleSubmit down to the awaited insert or update; the title input is required.
BlogSubmit ==
    /\ payload = NoPayload
    /\ formTitle # <<>>
    /\ payload' = [title |-> formTitle, slug |-> PayloadSlug(formSlug, formTitle)]
    /\ UNCHANGED <<offBlog, authVars, formTitle, formSlug, editingItem, blogRow>>

\* The insert or update is acknowledged: the row holds the payload, resetForm().
BlogSaved ==
    /\ payload # NoPayload
    /\ blogRow' = payload
    /\ payload' = NoPayload
    /\ formTitle' = <<>>
    /\ formSlug' = <<>>
    /\ editingItem' = FALSE
    /\ UNCHANGED <<offBlog, authVars>>

\* The insert or update is refused: a toast, the form stays.
BlogRefused ==
    /\ payload # NoPayload
    /\ payload' = NoPayload
    /\ UNCHANGED <<offBlog, authVars, formTitle, formSlug, editingItem, blogRow>>

\* handleEdit(item) on the row.
handleEdit ==
    /\ payload = NoPayload
    /\ blogRow # NoPayload
    /\ ~editingItem
    /\ editingItem' = TRUE
    /\ formTitle' = blogRow.title
    /\ formSlug' = blogRow.slug
    /\ UNCHANGED <<offBlog, authVars, payload, blogRow>>

SlugNext ==
    \/ \E text \in UserSlugs : setFormSlug(text)
    \/ BlogSubmit
    \/ BlogSaved
    \/ BlogRefused
    \/ handleEdit

SlugSpec == SlugInit /\ [][SlugNext]_vars

----------------------------------------------------------------------------
(* The cleanup of an AI response: enhanceVocabulary, generateVocabularyData  *)
(* and the string branch of GeminiStudio's handlers. A text is a sequence of *)
(* characters; (fence) in a comment stands for three backticks.              *)

\* The backtick, which a string of this language cannot hold.
Tick == "tick"

FenceJson == <<Tick, Tick, Tick, "j", "s", "o", "n">>
Fence == <<Tick, Tick, Tick>>

\* The JSON texts that are enumerated: the number 1 and the string literals over a
\* letter and the backtick, up to MaxBody characters between the quotes.
JsonTexts ==
    {<<"1">>} \cup {<<"\"">> \o b \o <<"\"">> :
                        b \in UNION {[1..len -> {"a", Tick}] : len \in 0..MaxBody}}

\* Texts that are no JSON: a bare word, a string literal left open, nothing.
NonJsonTexts == {<<"a">>, <<"\"", "a">>, <<>>}

\* The response: the text as it is, in json fences, or in plain fences.
Wrap(f, text) ==
    IF f = "json" THEN FenceJson \o <<"\n">> \o text \o <<"\n">> \o Fence
    ELSE IF f = "plain" THEN Fence \o <<"\n">> \o text \o <<"\n">> \o Fence
    ELSE text

\* .replace(/(fence)json/g, ''): two occurrences never overlap, so every one goes.
RemoveFenceJson(str) ==
    LET marked == [k \in 1..Len(str) |->
                      IF \E a \in 1..(Len(str) - 6) :
                            a <= k /\ k <= a + 6 /\ SubSeq(str, a, a + 6) = FenceJson
                      THEN "removed" ELSE str[k]]
    IN  SelectSeq(marked, LAMBDA c : c # "removed")

\* .replace(/(fence)/g, ''): matches are taken from the left and do not overlap, so of
\* a run of n backticks the first 3 * (n \div 3) go.
RemoveFence(str) ==
    LET isTick(k) == str[k] = Tick
        first(k) == CHOOSE a \in 1..k : /\ \A x \in a..k : isTick(x)
                                        /\ a = 1 \/ ~isTick(a - 1)
        last(k) == CHOOSE b \in k..Len(str) : /\ \A x \in k..b : isTick(x)
                                              /\ b = Len(str) \/ ~isTick(b + 1)
        marked == [k \in 1..Len(str) |->
                      IF isTick(k) /\ k - first(k) < 3 * ((last(k) - first(k) + 1) \div 3)
                      THEN "removed" ELSE str[k]]
    IN  SelectSeq(marked, LAMBDA c : c # "removed")

\* .trim()
Trim(str) ==
    LET black == {k \in 1..Len(str) : str[k] \notin {" ", "\n"}}
    IN  IF black = {} THEN <<>>
        ELSE SubSeq(str, CHOOSE a \in black : \A x \in black : a <= x,
                         CHOOSE b \in black : \A x \in black : x <= b)

SyntaxError == [t |-> "SyntaxError", v |-> <<>>]

\* JSON.parse over these texts: the number 1, a string literal (no line break
\* inside it), or a SyntaxError.
ParseJson(text) ==
    IF text = <<"1">> THEN [t |-> "number", v |-> text]
    ELSE IF JSONParse(text) # <<>> /\ \A k \in 1..Len(text) : text[k] # "\n"
    THEN [t |-> "string", v |-> JSONParse(text)[1]]
    ELSE SyntaxError

\* const cleanedContent = content.replace(/(fence)json/g, '').replace(/(fence)/g, '').trim()
CleanContent(content) == Trim(RemoveFence(RemoveFenceJson(content)))

\* try { ...; return JSON.parse(cleanedContent) } catch (e) { throw new Error(...) }
ParseResponse(content) ==
    IF ParseJson(CleanContent(content)) = SyntaxError
    THEN [t |-> "thrown", v |-> <<>>]
    ELSE ParseJson(CleanContent(content))

\* A response is about to arrive.
CleanInit ==
    /\ StudioIdle
    /\ FetchLoaded
    /\ ClassifierIdle
    /\ SignedInAt("/openai-studio")
    /\ BlogIdle
    /\ UploadIdle /\ CrudIdle /\ BulkIdle
    /\ aiText \in JsonTexts \cup NonJsonTexts
    /\ fence \in {"bare", "json", "plain"}
    /\ cleanResult = NotCalled

\* The response has arrived: the caller gets the parsed value or the error.
ResponseArrives ==
    /\ cleanResult = NotCalled
    /\ cleanResult' = ParseResponse(Wrap(fence, aiText))
    /\ UNCHANGED <<studioVars, fetchVars, classifierVars, authVars, blogVars, uploadVars,
                   crudVars, bulkVars, aiText, fence>>

CleanSpec == CleanInit /\ [][ResponseArrives]_vars

----------------------------------------------------------------------------
(* The image upload of the blog and resource forms, and the OpenAI panel     *)
(* without its key.                                                          *)

offUpload == <<studioVars, fetchVars, classifierVars, authVars, blogVars, cleanVars,
               crudVars, bulkVars>>

\* handleImageUpload down to the await of uploadImageToImgbb, which throws before
\* its fetch when the key is missing. The file input is disabled={isUploading}.
handleImageUpload ==
    /\ ~isUploading
    /\ isUploading' = TRUE
    /\ upc' = "pending"
    /\ imgFetched' = (imgFetched \/ imgKey)
    /\ UNCHANGED <<offUpload, imgKey, thumbnail>>

\* The image host answers with success: setFormData(prev => ({ ...prev,
\* thumbnail_url: url })); finally setIsUploading(false).
UploadOk ==
    /\ upc = "pending"
    /\ imgKey
    /\ thumbnail' = "uploaded"
    /\ isUploading' = FALSE
    /\ upc' = "done"
    /\ UNCHANGED <<offUpload, imgKey, imgFetched>>

\* uploadImageToImgbb throws: catch, a toast; finally setIsUploading(false).
UploadFail ==
    /\ upc = "pending"
    /\ isUploading' = FALSE
    /\ upc' = "failed"
    /\ UNCHANGED <<offUpload, imgKey, thumbnail, imgFetched>>

\* The OpenAI panel built without VITE_OPENAI_API_KEY, and a form that may or may
\* not hold a thumbnail, built with or without VITE_IMGBB_API_KEY.
KeyInit ==
    /\ StudioInit /\ panel = "openai" /\ apiKey = FALSE
    /\ FetchLoaded
    /\ ClassifierIdle
    /\ SignedInAt("/openai-studio")
    /\ BlogIdle
    /\ CleanIdle /\ CrudIdle /\ BulkIdle
    /\ imgKey \in BOOLEAN
    /\ isUploading = FALSE
    /\ thumbnail \in {"", "old"}
    /\ upc = "idle"
    /\ imgFetched = FALSE

\* The steps of the panel that can be taken without the key (every enrichment call
\* throws, so no call returns data and nothing can be applied), and the upload.
KeyNext ==
    \/ \E id \in Ids : toggleSelection(id)
    \/ StartBatch
    \/ EnrichFail
    \/ DelayElapsed
    \/ \E id \in Ids : Preview(id)
    \/ \E id \in Ids : PreviewFail(id)
    \/ CloseDialog
    \/ handleImageUpload
    \/ UploadOk
    \/ UploadFail

KeySpec == KeyInit /\ [][KeyNext]_vars

----------------------------------------------------------------------------
(* A list page and its table (specification CrudSpec). Resources, Blogs and  *)
(* Vocabulary share the shape of their fetch, handleSubmit, handleDelete,    *)
(* handleEdit and resetForm. A store call ends in one of three ways: it      *)
(* returns no error ("ok"), it returns an error value ("error"), or its      *)
(* promise rejects ("throws").                                               *)

CrudIds == 1 .. NumRows
\* The id the table gives to an inserted row.
NewId == NumRows + 1
AllIds == 1 .. NewId
Answers == {"ok", "error", "throws"}

offCrud == <<studioVars, fetchVars, classifierVars, authVars, blogVars, cleanVars,
             uploadVars, bulkVars>>
formVars == <<isDialogOpen, formData, editingId>>

\* A fetch whose query the server has not yet answered.
Sent == [st |-> "sent", snap |-> {}]
Done == [st |-> "done", snap |-> {}]
InFlight(f) == f.st \in {"sent", "read", "failed"}

SucceededAlways(ans) == TRUE

\* if (error) { toast } else { toast; fetch...(); ... }
Succeeded(ans) == ans = "ok"

\* The page mounts on a table of some rows: useState(true) of loading, and the
\* useEffect calls the fetch, which is awaiting its query.
CrudInit ==
    /\ StudioIdle
    /\ FetchLoaded
    /\ ClassifierIdle
    /\ SignedInAt("/resources")
    /\ BlogIdle
    /\ CleanIdle /\ UploadIdle /\ BulkIdle
    /\ dbRows \in SUBSET CrudIds
    /\ items = {}
    /\ loading = TRUE
    /\ fetches = <<Sent>>
    /\ isDialogOpen = FALSE
    /\ formData = ""
    /\ editingId = 0
    /\ submitting = FALSE
    /\ submitReq = NoReq
    /\ deletingId = 0
    /\ dels = [id \in AllIds |-> "none"]
    /\ ops = 0

\* The server answers the query of a fetch with the rows the table holds now.
ServerReads(k) ==
    /\ fetches[k].st = "sent"
    /\ fetches' = [fetches EXCEPT ![k] = [st |-> "read", snap |-> dbRows]]
    /\ UNCHANGED <<offCrud, dbRows, items, loading, formVars, submitting, submitReq,
                   deletingId, dels, ops>>

\* The server answers the query of a fetch with an error.
ServerRefuses(k) ==
    /\ fetches[k].st = "sent"
    /\ fetches' = [fetches EXCEPT ![k] = [st |-> "failed", snap |-> {}]]
    /\ UNCHANGED <<offCrud, dbRows, items, loading, formVars, submitting, submitReq,
                   deletingId, dels, ops>>

\* The fetch resumes with its data: setResources(allData); setLoading(false).
FetchReturns(k) ==
    /\ fetches[k].st = "read"
    /\ items' = fetches[k].snap
    /\ loading' = FALSE
    /\ fetches' = [fetches EXCEPT ![k] = Done]
    /\ UNCHANGED <<offCrud, dbRows, formVars, submitting, submitReq, deletingId, dels,
                   ops>>

\* The fetch resumes with an error: throw error; catch, a toast; setLoading(false).
FetchThrows(k) ==
    /\ fetches[k].st = "failed"
    /\ loading' = FALSE
    /\ fetches' = [fetches EXCEPT ![k] = [st |-> "thrown", snap |-> {}]]
    /\ UNCHANGED <<offCrud, dbRows, items, formVars, submitting, submitReq, deletingId,
                   dels, ops>>

\* The user opens the dialog for a new entry. The dialog is modal.
OpenForm ==
    /\ ~isDialogOpen
    /\ isDialogOpen' = TRUE
    /\ UNCHANGED <<offCrud, dbRows, items, loading, fetches, formData, editingId,
                   submitting, submitReq, deletingId, dels, ops>>

\* The user fills the form in.
setFormData ==
    /\ isDialogOpen
    /\ formData = ""
    /\ formData' = "typed"
    /\ UNCHANGED <<offCrud, dbRows, items, loading, fetches, isDialogOpen, editingId,
                   submitting, submitReq, deletingId, dels, ops>>

\* handleEdit(item): the Edit button of a row is disabled={deletingId !== null}.
EditItem(id) ==
    /\ id \in items
    /\ ~isDialogOpen
    /\ deletingId = 0
    /\ editingId' = id
    /\ formData' = "typed"
    /\ isDialogOpen' = TRUE
    /\ UNCHANGED <<offCrud, dbRows, items, loading, fetches, submitting, submitReq,
                   deletingId, dels, ops>>

\* The dialog is closed: onOpenChange(false) calls resetForm().
CloseForm ==
    /\ isDialogOpen
    /\ isDialogOpen' = FALSE
    /\ formData' = ""
    /\ editingId' = 0
    /\ UNCHANGED <<offCrud, dbRows, items, loading, fetches, submitting, submitReq,
                   deletingId, dels, ops>>

\* handleSubmit down to its await: setSubmitting(true); the update of the edited
\* row or the insert of a new one. The submit button is disabled={submitting}.
handleSubmit ==
    /\ isDialogOpen
    /\ formData = "typed"
    /\ ~submitting
    /\ ops < MaxOps
    /\ submitting' = TRUE
    /\ submitReq' = [st |-> "sent", id |-> editingId]
    /\ ops' = ops + 1
    /\ UNCHANGED <<offCrud, dbRows, items, loading, fetches, formVars, deletingId, dels>>

\* The store ends the insert or update in one of the three ways.
ServerSubmit(ans) ==
    /\ submitReq.st = "sent"
    /\ submitReq' = [submitReq EXCEPT !.st = ans]
    /\ dbRows' = IF ans = "ok" /\ submitReq.id = 0 THEN dbRows \cup {NewId} ELSE dbRows
    /\ UNCHANGED <<offCrud, items, loading, fetches, formVars, submitting, deletingId,
                   dels, ops>>

\* handleSubmit resumes with { error }: if (error) a toast, else a toast, the
\* refetch down to its await (setLoading(true)) and resetForm(); then
\* setSubmitting(false).
SubmitReturns ==
    /\ submitReq.st \in {"ok", "error"}
    /\ IF Succeeded(submitReq.st)
       THEN /\ fetches' = Append(fetches, Sent)
            /\ loading' = TRUE
            /\ isDialogOpen' = FALSE
            /\ formData' = ""
            /\ editingId' = 0
       ELSE UNCHANGED <<fetches, loading, formVars>>
    /\ submitting' = FALSE
    /\ submitReq' = NoReq
    /\ UNCHANGED <<offCrud, dbRows, items, deletingId, dels, ops>>

\* The awaited insert or update rejects: handleSubmit has no try, so it ends at
\* the await and nothing after it runs.
SubmitThrows ==
    /\ submitReq.st = "throws"
    /\ submitReq' = NoReq
    /\ UNCHANGED <<offCrud, dbRows, items, loading, fetches, formVars, submitting,
                   deletingId, dels, ops>>

\* handleDelete(id) down to its await, the user having confirmed:
\* setDeletingId(id). The Delete button of a row is disabled={deletingId === item.id}.
handleDelete(id) ==
    /\ id \in items
    /\ ~isDialogOpen
    /\ deletingId # id
    /\ dels[id] = "none"
    /\ ops < MaxOps
    /\ deletingId' = id
    /\ dels' = [dels EXCEPT ![id] = "sent"]
    /\ ops' = ops + 1
    /\ UNCHANGED <<offCrud, dbRows, items, loading, fetches, formVars, submitting,
                   submitReq>>

\* The store ends the delete in one of the three ways.
ServerDelete(id, ans) ==
    /\ dels[id] = "sent"
    /\ dels' = [dels EXCEPT ![id] = ans]
    /\ dbRows' = IF ans = "ok" THEN dbRows \ {id} ELSE dbRows
    /\ UNCHANGED <<offCrud, items, loading, fetches, formVars, submitting, submitReq,
                   deletingId, ops>>

\* handleDelete resumes with { error }: if (error) a toast, else a toast and the
\* refetch down to its await; then setDeletingId(null).
DeleteReturns(id) ==
    /\ dels[id] \in {"ok", "error"}
    /\ IF Succeeded(dels[id])
       THEN /\ fetches' = Append(fetches, Sent)
            /\ loading' = TRUE
       ELSE UNCHANGED <<fetches, loading>>
    /\ deletingId' = 0
    /\ dels' = [dels EXCEPT ![id] = "none"]
    /\ UNCHANGED <<offCrud, dbRows, items, formVars, submitting, submitReq, ops>>

\* The awaited delete rejects: handleDelete has no try, so it ends at the await.
DeleteThrows(id) ==
    /\ dels[id] = "throws"
    /\ dels' = [dels EXCEPT ![id] = "none"]
    /\ UNCHANGED <<offCrud, dbRows, items, loading, fetches, formVars, submitting,
                   submitReq, deletingId, ops>>

CrudNext ==
    \/ \E k \in DOMAIN fetches : ServerReads(k)
    \/ \E k \in DOMAIN fetches : ServerRefuses(k)
    \/ \E k \in DOMAIN fetches : FetchReturns(k)
    \/ \E k \in DOMAIN fetches : FetchThrows(k)
    \/ OpenForm
    \/ setFormData
    \/ \E id \in AllIds : EditItem(id)
    \/ CloseForm
    \/ handleSubmit
    \/ \E ans \in Answers : ServerSubmit(ans)
    \/ SubmitReturns
    \/ SubmitThrows
    \/ \E id \in AllIds : handleDelete(id)
    \/ \E id \in AllIds, ans \in Answers : ServerDelete(id, ans)
    \/ \E id \in AllIds : DeleteReturns(id)
    \/ \E id \in AllIds : DeleteThrows(id)

CrudSpec == CrudInit /\ [][CrudNext]_vars

----------------------------------------------------------------------------
(* The bulk upload of vocabulary from pasted JSON (specification BulkSpec).  *)
(* A field of a pasted item is null or absent (Null), the empty string or a  *)
(* string with text; an item of the array may itself be null.                *)

offBulk == <<studioVars, fetchVars, classifierVars, authVars, blogVars, cleanVars,
             uploadVars, crudVars>>

\* A primary field that does not pass the test: null or absent, or the empty string.
FieldValues == {Null, Str(0)}
ValidItem == [korean_word |-> Str(1), bangla_meaning |-> Str(1)]
\* The items: the valid one, those with one primary field that does not pass, null.
BulkItems ==
    {ValidItem, Null}
    \cup {[ValidItem EXCEPT !.korean_word = v] : v \in FieldValues}
    \cup {[ValidItem EXCEPT !.bangla_meaning = v] : v \in FieldValues}
\* What JSON.parse makes of the pasted text: a SyntaxError, a value that is not an
\* array, or an array of items.
BulkInputs ==
    {[t |-> "bad", v |-> <<>>], [t |-> "object", v |-> <<>>]}
    \cup {[t |-> "array", v |-> a] : a \in UNION {[1 .. n -> BulkItems] : n \in 0 .. MaxItems}}

ValidKorean(item) == ~Falsy(item.korean_word)

\* item.korean_word && item.bangla_meaning
Valid(item) == ~Falsy(item.korean_word) /\ ~Falsy(item.bangla_meaning)

\* processDataForUpload: the record built from each item (explanation: item.explanation
\* || ''), then those of the records that hold both primary fields.
processDataForUpload(data) ==
    SelectSeq([p \in DOMAIN data |->
                  [korean_word |-> data[p].korean_word,
                   bangla_meaning |-> data[p].bangla_meaning,
                   explanation |-> Str(0)]],
              Valid)

\* The user clears the textarea, or types a text into the empty textarea.
setJsonInput(text) ==
    /\ jsonInput # text
    /\ jsonInput = NoInput \/ text = NoInput
    /\ jsonInput' = text
    /\ UNCHANGED <<offBulk, previewData, uploading, bulkError, insertCalls, bulkReq,
                   onSuccessCalls>>

\* handleJsonPaste, its button disabled={!jsonInput.trim()}: setError(null);
\* setPreviewData([]); then the parse. Reading a field of a null item throws a
\* TypeError inside the try, which the catch reports as an invalid format.
handleJsonPaste ==
    /\ jsonInput.t # "empty"
    /\ IF jsonInput.t = "array" /\ \A p \in DOMAIN jsonInput.v : jsonInput.v[p] # Null
       THEN /\ previewData' = SelectSeq(jsonInput.v, Valid)
            /\ bulkError' = (\E p \in DOMAIN jsonInput.v : ~Valid(jsonInput.v[p]))
       ELSE /\ previewData' = <<>>
            /\ bulkError' = TRUE
    /\ UNCHANGED <<offBulk, jsonInput, uploading, insertCalls, bulkReq, onSuccessCalls>>

\* handleUpload down to its await, its button shown for a non-empty preview and
\* disabled={uploading}: setUploading(true); with nothing to upload an error and
\* setUploading(false); else the one insert of all the formatted records.
handleUpload ==
    /\ previewData # <<>>
    /\ ~uploading
    /\ Len(insertCalls) < MaxUploads
    /\ IF processDataForUpload(previewData) = <<>>
       THEN /\ bulkError' = TRUE
            /\ UNCHANGED <<uploading, insertCalls, bulkReq>>
       ELSE /\ uploading' = TRUE
            /\ insertCalls' = Append(insertCalls, processDataForUpload(previewData))
            /\ bulkReq' = "sent"
            /\ UNCHANGED bulkError
    /\ UNCHANGED <<offBulk, jsonInput, previewData, onSuccessCalls>>

\* The store ends the insert in one of the three ways.
ServerInsert(ans) ==
    /\ bulkReq = "sent"
    /\ bulkReq' = ans
    /\ UNCHANGED <<offBulk, jsonInput, previewData, uploading, bulkError, insertCalls,
                   onSuccessCalls>>

\* handleUpload resumes with { error: uploadError }: setUploading(false); then the
\* error and a toast, or a toast and onSuccess().
InsertReturns ==
    /\ bulkReq \in {"ok", "error"}
    /\ uploading' = FALSE
    /\ IF bulkReq = "error"
       THEN bulkError' = TRUE /\ UNCHANGED onSuccessCalls
       ELSE onSuccessCalls' = onSuccessCalls + 1 /\ UNCHANGED bulkError
    /\ bulkReq' = "none"
    /\ UNCHANGED <<offBulk, jsonInput, previewData, insertCalls>>

\* The awaited insert rejects: handleUpload has no try, so it ends at the await.
InsertThrows ==
    /\ bulkReq = "throws"
    /\ bulkReq' = "none"
    /\ UNCHANGED <<offBulk, jsonInput, previewData, uploading, bulkError, insertCalls,
                   onSuccessCalls>>

BulkInit ==
    /\ StudioIdle
    /\ FetchLoaded
    /\ ClassifierIdle
    /\ SignedInAt("/vocabulary")
    /\ BlogIdle
    /\ CleanIdle /\ UploadIdle /\ CrudIdle /\ BulkIdle

BulkNext ==
    \/ \E text \in BulkInputs \cup {NoInput} : setJsonInput(text)
    \/ handleJsonPaste
    \/ handleUpload
    \/ \E ans \in Answers : ServerInsert(ans)
    \/ InsertReturns
    \/ InsertThrows

BulkSpec == BulkInit /\ [][BulkNext]_vars

----------------------------------------------------------------------------
(* Properties of the enhancement batch *)

FinalStatus == {"success", "error"}

\* A batch is running: its handler is suspended at an await.
BatchRunning == bpc # "idle"

\* A batch has run to its end and no other has started since.
BatchDone == bpc = "idle" /\ summary # <<>>

\* The positions of the batch whose record is in the given status.
WithStatus(st) == {p \in DOMAIN results : results[p].status = st}

\* The positions of the batch whose record has been through its iteration without
\* an acknowledged update: its enrichment call or its store update failed.
FailedRecords == {p \in DOMAIN selected :
                    /\ enrichCalls[selected[p]] > 0
                    /\ updateAcks[selected[p]] = 0
                    /\ (p < i + 1 \/ bpc \in {"delay", "idle"})}

\* C1: a failing record never aborts the batch. When the batch is over, every
\* selected record has been processed, in the order of the list; a record is error
\* iff its enrichment call or its update failed and success otherwise; and
\* successCount = k - |F|, errorCount = |F|, which the summary reports.
C1_FailureIsolated ==
    BatchDone =>
        LET k == Len(selected) IN
        /\ Len(results) = k
        /\ \A p \in 1..k :
              /\ results[p].id = selected[p]
              /\ enrichCalls[selected[p]] = 1
              /\ results[p].status = IF p \in FailedRecords THEN "error" ELSE "success"
        /\ \A p, q \in 1..k : p < q => selected[p] > selected[q]
        /\ successCount = k - Cardinality(FailedRecords)
        /\ errorCount = Cardinality(FailedRecords)
        /\ summary = <<successCount, errorCount>>

\* A finished batch over three records of which the middle one alone failed.
C1_Witness ==
    /\ BatchDone
    /\ Len(selected) = 3
    /\ FailedRecords = {2}
    /\ [p \in 1..3 |-> results[p].status] = <<"success", "error", "success">>
    /\ successCount = 2 /\ errorCount = 1

\* C2: the batch is strictly sequential. At every moment the records before the
\* current one are finished, the records after it are pending with no call issued
\* for them, at most one record is processing, no record has more than one
\* enrichment call, and the call of a record is issued only when the record before
\* it has reached success or error.
C2_Sequential ==
    (BatchRunning \/ BatchDone) =>
        LET k == Len(selected) IN
        /\ Len(results) = k
        /\ Cardinality(WithStatus("processing")) <= 1
        /\ \A p \in 1..k :
              /\ results[p].id = selected[p]
              /\ enrichCalls[selected[p]] <= 1
              /\ p < i + 1 => results[p].status \in FinalStatus
              /\ p > i + 1 => /\ results[p].status = "pending"
                              /\ enrichCalls[selected[p]] = 0
                              /\ updateCalls[selected[p]] = 0
              /\ (p = i + 1 /\ bpc \in {"enrich", "update"}) =>
                    /\ results[p].status = "processing"
                    /\ enrichCalls[selected[p]] = 1
              /\ (p = i + 1 /\ bpc = "delay") => results[p].status \in FinalStatus
              /\ (p > 1 /\ enrichCalls[selected[p]] > 0) =>
                    results[p - 1].status \in FinalStatus
        /\ BatchDone => /\ i = k
                        /\ \A p \in 1..k : enrichCalls[selected[p]] = 1

\* The second of three records is being enriched: the first is finished, the third
\* is pending and has had no call.
C2_Witness ==
    /\ bpc = "enrich"
    /\ Len(selected) = 3
    /\ i = 1
    /\ results[1].status \in FinalStatus
    /\ results[2].status = "processing"
    /\ results[3].status = "pending"

\* A record of the running batch reaches the given status in this step.
Becomes(p, st) ==
    /\ p \in DOMAIN results /\ p \in DOMAIN results'
    /\ results[p].status # st
    /\ results'[p].status = st

\* C3: every successful result is written individually and at once. The step that
\* makes a record success is the step in which its own update is acknowledged and
\* in the store, and it writes no other row; a record is success only with its
\* update acknowledged; a step that makes a record error writes nothing; and while
\* the batch goes on, the row of a successful record is written again by nothing
\* but an apply of the user on that row.
C3_WriteThrough ==
    /\ [](\A p \in WithStatus("success") :
            /\ updateAcks[results[p].id] = 1
            /\ store[results[p].id].via # "orig")
    /\ [][\A p \in DOMAIN results :
            /\ Becomes(p, "success") =>
                  /\ store'[results[p].id] = Data(results[p].id, "batch")
                  /\ updateAcks'[results[p].id] = 1
                  /\ \A o \in Ids \ {results[p].id} : store'[o] = store[o]
            /\ Becomes(p, "error") => store' = store
            /\ (results[p].status = "success" /\ BatchRunning
                  /\ store'[results[p].id] # store[results[p].id]) =>
                  (applyReq.id = results[p].id /\ applyReq' = NoApply)]_vars

\* The first record is success and stored while a later record of the batch has
\* failed.
C3_Witness ==
    /\ BatchRunning
    /\ Len(selected) = 3
    /\ results[1].status = "success"
    /\ results[2].status = "error"
    /\ store[selected[1]] = Data(selected[1], "batch")
    /\ store[selected[2]] = Data(selected[2], "orig")

\* C4: the batch invalidates the vocabulary cache exactly once, after the last
\* record has reached its final status: no invalidation while the batch is
\* running, one when it is over.
C4_InvalidateOnce ==
    /\ BatchRunning => batchInvalidations = 0
    /\ BatchDone => /\ batchInvalidations = 1
                    /\ \A p \in DOMAIN results : results[p].status \in FinalStatus

\* A finished batch of successes and failures, with its one invalidation.
C4_Witness ==
    /\ BatchDone
    /\ successCount > 0 /\ errorCount > 0
    /\ batchInvalidations = 1

\* C5: a started batch finishes: the processing flag is false again, no record is
\* pending or processing, and the summary counts add up to the number of selected
\* records.
C5_BatchTerminates ==
    BatchRunning ~>
        /\ bpc = "idle"
        /\ ~isProcessing
        /\ WithStatus("pending") \cup WithStatus("processing") = {}
        /\ summary # <<>>
        /\ summary[1] + summary[2] = Len(selected)

\* A batch over three records has finished and the flag is false.
C5_Witness ==
    /\ BatchDone
    /\ ~isProcessing
    /\ Len(selected) = 3
    /\ summary[1] + summary[2] = 3

\* The fraction a equals n / d.
ProgressIs(a, n, d) == a[1] * d = n * a[2]

\* C6: the running progress is completed / total: it is the share of the records
\* that have reached success or error (0 at the start, 100% at the end), and it
\* never decreases while the batch is running.
C6_Progress ==
    /\ []((BatchRunning \/ BatchDone) =>
            ProgressIs(progress, Cardinality(WithStatus("success") \cup WithStatus("error")),
                       Len(selected)))
    /\ [](BatchDone => ProgressIs(progress, 1, 1))
    /\ [][BatchRunning => progress[1] * progress'[2] <= progress'[1] * progress[2]]_vars

\* One of two records is finished and the progress is one half.
C6_Witness ==
    /\ bpc = "delay"
    /\ Len(selected) = 2
    /\ Cardinality(WithStatus("success") \cup WithStatus("error")) = 1
    /\ progress = <<1, 2>>

\* C7: one delay after each record except the last. While record i is processed,
\* i delays have been taken; a delay is awaited only with a record still to come;
\* the finished batch has taken k - 1 delays; and the step that finishes the last
\* record ends the batch without a delay.
C7_Delays ==
    /\ [](/\ bpc \in {"enrich", "update"} => delays = i
          /\ bpc = "delay" => (delays = i + 1 /\ i + 1 < Len(selected))
          /\ BatchDone => delays = Len(selected) - 1)
    /\ [][(BatchRunning /\ (Becomes(Len(selected), "success")
                            \/ Becomes(Len(selected), "error"))) =>
            (bpc' = "idle" /\ delays' = delays)]_vars

\* A finished batch over three records, the first of which failed, with its two
\* delays.
C7_Witness ==
    /\ BatchDone
    /\ Len(selected) = 3
    /\ results[1].status = "error"
    /\ results[2].status = "success"
    /\ delays = 2

\* C8 (as claimed): whichever call fails, the record becomes error and its result
\* entry carries the message of the error that was caught.
C8_MessageCaptured ==
    [][\A e \in EnrichErrors(panel) \cup UpdateErrors :
          (/\ \/ (bpc = "enrich" /\ e \in EnrichErrors(panel))
              \/ (bpc = "update" /\ e \in UpdateErrors)
           /\ CatchRecord(e))
          => /\ results'[i + 1].status = "error"
             /\ results'[i + 1].error = e.message]_vars

\* C9: no retry. No record has more than one enrichment call or more than one
\* update, an update is issued only after the record's enrichment call, a record
\* whose enrichment call failed gets no update, the finished batch has issued
\* exactly one enrichment call per selected record, and a record in error is not
\* touched again by the batch.
C9_NoRetry ==
    /\ [](\A id \in Ids : /\ enrichCalls[id] <= 1
                          /\ updateCalls[id] <= enrichCalls[id])
    /\ [](BatchDone => \A id \in Ids :
            enrichCalls[id] = IF \E p \in DOMAIN selected : selected[p] = id THEN 1 ELSE 0)
    /\ [][\A p \in DOMAIN results :
            /\ (bpc = "enrich" /\ Becomes(p, "error")) => updateCalls'[results[p].id] = 0
            /\ (BatchRunning /\ results[p].status = "error") =>
                  /\ results'[p] = results[p]
                  /\ enrichCalls'[results[p].id] = enrichCalls[results[p].id]
                  /\ updateCalls'[results[p].id] = updateCalls[results[p].id]]_vars

\* The batch has moved on to the second record after the enrichment call of the
\* first failed: one call and no update for the first.
C9_Witness ==
    /\ bpc = "enrich"
    /\ i = 1
    /\ results[1].status = "error"
    /\ enrichCalls[selected[1]] = 1
    /\ updateCalls[selected[1]] = 0

\* C10: preview is read-only. A step of a preview (its request, its answer, its
\* failure) writes no row, issues no update and invalidates nothing; a row changes
\* only when an update of apply, or of a running batch, is acknowledged.
C10_PreviewReadOnly ==
    [][/\ previewReqs' # previewReqs =>
            /\ store' = store
            /\ applyReq' = applyReq
            /\ updateCalls' = updateCalls
            /\ batchInvalidations' = batchInvalidations
            /\ applyInvalidations' = applyInvalidations
       /\ store' # store =>
            \/ (applyReq # NoApply /\ applyReq' = NoApply)
            \/ bpc = "update"]_vars

\* A preview has answered and its record is as it was in the store.
C10_Witness ==
    /\ enhancedData # NoData
    /\ previewVocab # 0
    /\ enhancedData = Data(previewVocab, "preview")
    /\ store[previewVocab] = Data(previewVocab, "orig")
    /\ applyReq = NoApply

----------------------------------------------------------------------------
(* Properties of apply *)

\* The busy flag of apply: isProcessing in OpenAiStudio, isApplying in GeminiStudio.
ApplyBusy == IF panel = "openai" THEN isProcessing ELSE isApplying

\* C11: apply writes the proposed data to the previewed record by its primary key
\* and only then invalidates the cache and closes the dialog; a rejected update
\* invalidates nothing and leaves the dialog and the proposed data as they are;
\* either way the busy flag is false again; and no update is issued without a
\* previewed record and proposed data.
C11_Apply ==
    /\ [](applyReq # NoApply =>
            /\ applyReq.id \in Ids
            /\ applyReq.data # NoData
            /\ applyInvalidations = 0)
    /\ [][/\ (applyReq = NoApply /\ applyReq' # NoApply) =>
               /\ previewVocab # 0 /\ enhancedData # NoData
               /\ applyReq' = [id |-> previewVocab, data |-> enhancedData]
               /\ store' = store
               /\ ApplyBusy'
          /\ (applyReq # NoApply /\ applyReq' = NoApply) =>
               /\ ~ApplyBusy'
               /\ \/ /\ store' = [store EXCEPT ![applyReq.id] = applyReq.data]
                     /\ applyInvalidations' = 1
                     /\ ~showPreview'
                  \/ /\ store' = store
                     /\ applyInvalidations' = 0
                     /\ showPreview' = showPreview
                     /\ enhancedData' = enhancedData
                     /\ previewVocab' = previewVocab
          /\ applyInvalidations' > applyInvalidations =>
               /\ applyReq # NoApply
               /\ store'[applyReq.id] = applyReq.data]_vars

\* An apply has gone through: the previewed record holds the proposed data, the
\* cache has been invalidated once, the dialog is closed and the flag is false.
C11_Witness ==
    /\ previewVocab # 0
    /\ applyReq = NoApply
    /\ store[previewVocab] = Data(previewVocab, "preview")
    /\ applyInvalidations = 1
    /\ ~showPreview
    /\ ~ApplyBusy

\* C12 (as claimed): what the user last typed into the editor of a field is what
\* apply writes for that field: the update apply issues carries the typed text, as
\* the text itself or as the JSON value it denotes.
C12_EditedVerbatim ==
    [][(applyReq = NoApply /\ applyReq' # NoApply /\ typed # <<>>) =>
          \/ applyReq'.data.edit = <<typed>>
          \/ (JSONParse(typed) # <<>> /\ applyReq'.data.edit = JSONParse(typed))]_vars

----------------------------------------------------------------------------
(* Properties of the paginated fetch *)

\* The fetch has returned its list.
FetchDone == fpc = "done"

\* A row that the list holds more than once.
Duplicated == {allData[p] : p \in {p \in DOMAIN allData :
                                    \E q \in DOMAIN allData : q # p /\ allData[q] = allData[p]}}

\* A row that was in the table all through the fetch and that the list lacks.
Omitted == stable \ {allData[p] : p \in DOMAIN allData}

\* C13: with no write during the fetch, the fetch over N rows ends and returns the
\* N rows, each once and in query order; its range queries are [0,P-1], [P,2P-1],
\* ..., every page before the last is full, and the last is the first that is
\* empty or shorter than P.
C13_FetchAll ==
    /\ [](writes = 0 =>
            /\ \A k \in DOMAIN queries :
                  /\ queries[k][1] = (k - 1) * PageSize
                  /\ queries[k][2] = k * PageSize - 1
                  /\ k < Len(queries) => queries[k][3] = PageSize
            /\ fpc = "query" =>
                  /\ from = Len(queries) * PageSize
                  /\ from <= Cardinality(rows)
                  /\ allData = SubSeq(Desc(rows), 1, from)
                  /\ \A k \in DOMAIN queries : queries[k][3] = PageSize
            /\ FetchDone =>
                  /\ allData = Desc(rows)
                  /\ Len(allData) = Cardinality(rows)
                  /\ Duplicated = {}
                  /\ queries = QueriesOf(Cardinality(rows))
                  /\ queries[Len(queries)][3] < PageSize)
    /\ <>(fpc # "query")

\* A fetch over two full pages and one more row has returned the rows in three
\* queries.
C13_Witness ==
    /\ FetchDone
    /\ writes = 0
    /\ Cardinality(rows) = 2 * PageSize + 1
    /\ Len(queries) = 3
    /\ allData = Desc(rows)

\* C14: the page boundaries are offsets, so a write between two page queries can
\* make the fetch return a row twice or leave out a row that was in the table all
\* along (the witness is such a fetch); without such a write the list has no
\* duplicate and lacks no such row.
C14_RaceAnomaly ==
    (FetchDone /\ (Duplicated # {} \/ Omitted # {})) => midWrites > 0

\* A fetch during which one row was inserted and one deleted between its pages has
\* returned one row twice and left out another that was there all along.
C14_Witness ==
    /\ FetchDone
    /\ Duplicated # {}
    /\ Omitted # {}
    /\ midWrites = 2

----------------------------------------------------------------------------
(* Properties of the classifier *)

\* The record is one of those the panel lists.
Listed(v) == \E k \in DOMAIN filteredVocabs : filteredVocabs[k] = v

\* C15: for a record whose part of speech is not "verb", the absence of verb_forms
\* marks nothing: with and without verb_forms the record fares alike under every
\* filter, in hasMissingFields, in the issue count and in the dashboard's test; the
\* verb-forms filter never lists it and no verb-forms badge is rendered for it.
C15_NonVerbNeverFlagged ==
    /\ \A k \in DOMAIN vocabList :
          LET v == vocabList[k]
              without == [v EXCEPT !.verb_forms = Null]
              with == [v EXCEPT !.verb_forms = Obj]
          IN ~isVerb(v) =>
                /\ \A ft \in FilterTypes(panel) :
                      Selected(panel, ft, without) = Selected(panel, ft, with)
                /\ ~Selected(panel, "missing-verb", without)
                /\ hasMissingFields(panel, without) = hasMissingFields(panel, with)
                /\ Badges(panel, without) = Badges(panel, with)
                /\ "missing-verb" \notin Badges(panel, without)
                /\ missingCount(without) = missingCount(with)
                /\ dashIncomplete(without) = dashIncomplete(with)
                /\ filterType = "missing-verb" => ~Listed(v)
    /\ \A k \in DOMAIN filteredVocabs :
          ~isVerb(filteredVocabs[k]) => "missing-verb" \notin shownBadges[k]
    /\ (~countsLoading /\ \A k \in DOMAIN vocabList : ~isVerb(vocabList[k])) =>
          incomplete = Cardinality({k \in DOMAIN vocabList :
                                      noExamples(vocabList[k]) \/ noExplanation(vocabList[k])})

\* A noun that lacks verb_forms and nothing else: the default filter does not list
\* it and the dashboard has counted no incomplete record.
C15_Witness ==
    /\ vocabList[1] = CompleteVocab
    /\ Falsy(vocabList[1].verb_forms)
    /\ vocabList[2] = CompleteVocab
    /\ filterType = "all"
    /\ filteredVocabs = <<>>
    /\ ~countsLoading
    /\ incomplete = 0

\* C16 (as claimed): under the default "all" filter, with no restriction of the
\* part of speech, a panel lists a record iff verb_forms (of a verb), examples or
\* explanation is missing; a record that lacks only romanization, part_of_speech or
\* themes is not listed. In both panels.
C16_AllFilter ==
    (filterType = "all" /\ filterPos = "all") =>
        \A k \in DOMAIN vocabList :
            Listed(vocabList[k]) <=>
                \/ missingVerb(vocabList[k])
                \/ noExamples(vocabList[k])
                \/ noExplanation(vocabList[k])

\* C17 (as claimed): under the "missing-all-fields" filter, with no restriction of
\* the part of speech, a panel lists a record iff verb_forms (if it is a verb),
\* examples, explanation, romanization and themes are all missing at once. In both
\* panels.
C17_MissingAllFields ==
    (filterType = "missing-all-fields" /\ filterPos = "all") =>
        \A k \in DOMAIN vocabList :
            Listed(vocabList[k]) <=>
                /\ isVerb(vocabList[k]) => Falsy(vocabList[k].verb_forms)
                /\ noExamples(vocabList[k])
                /\ noExplanation(vocabList[k])
                /\ noRomanization(vocabList[k])
                /\ noThemes(vocabList[k])

\* C18 (as claimed): for every record, it passes the "all" filter iff a panel shows
\* at least one missing-field badge for it, each badge is shown iff the filter of
\* its field selects the record, and the dashboard's count is the number of records
\* that pass the "all" filter of the panel with no other restriction.
C18_FlagsAgree ==
    /\ \A k \in DOMAIN vocabList :
          /\ Selected(panel, "all", vocabList[k]) <=> Badges(panel, vocabList[k]) # {}
          /\ \A b \in BadgeNames(panel) :
                b \in Badges(panel, vocabList[k]) <=> Selected(panel, b, vocabList[k])
    /\ \A k \in DOMAIN filteredVocabs :
          shownBadges[k] = Badges(panel, filteredVocabs[k])
    /\ ~countsLoading =>
          incomplete = Len(filterVocabularies(panel, vocabList, "all", "all"))

----------------------------------------------------------------------------
(* Properties of the routing *)

\* C19: a page inside ProtectedRoute is rendered only with a session and with the
\* provider loaded, never at /login's place; with no session the only routing step
\* is the redirect to /login, which remembers the location asked for; a successful
\* sign-in navigates to the remembered location, or to / if there is none, and the
\* session exists then; a failed sign-in changes neither the location nor the
\* session and clears the loading flag of the form.
C19_Protected ==
    /\ [](Screen = "children" => (session /\ ~authLoading /\ location # "/login"))
    /\ []((~session \/ authLoading) => Screen \in {"login", "spinner", "navigate"})
    /\ [][/\ (Screen = "navigate" /\ signing' = signing) =>
               /\ location' = "/login"
               /\ locState' = location
               /\ Screen' = "login"
          /\ (~signing /\ signing') =>
               /\ location = "/login"
               /\ loginFrom' = IF locState = "none" THEN "/" ELSE locState
          /\ (signing /\ ~signing' /\ signResult' = "ok") =>
               /\ session'
               /\ location' = loginFrom
               /\ Screen' = IF authLoading THEN "spinner" ELSE "children"
          /\ (signing /\ ~signing' /\ signResult' = "error") =>
               /\ location' = location
               /\ session' = session
               /\ ~loginLoading'
               /\ (location = "/login" => Screen' = "login")]_vars

\* A visitor who asked for /vocabulary without a session was sent to /login, has
\* signed in, and is on /vocabulary with the page rendered.
C19_Witness ==
    /\ signResult = "ok"
    /\ loginFrom = "/vocabulary"
    /\ location = "/vocabulary"
    /\ session
    /\ Screen = "children"

----------------------------------------------------------------------------
(* Properties of the slug *)

SlugChars == Digits \cup {LowerCase[n] : n \in 1..26} \cup {"-"}

\* Only [a-z0-9-], no two hyphens in a row, no hyphen first or last.
SlugShape(g) ==
    /\ \A n \in 1..Len(g) : g[n] \in SlugChars
    /\ \A n \in 1..(Len(g) - 1) : ~(g[n] = "-" /\ g[n + 1] = "-")
    /\ g # <<>> => (g[1] # "-" /\ g[Len(g)] # "-")

\* g is the lower-cased title with every run of other characters that stands between
\* two alphanumeric ones turned into one hyphen, and the other runs dropped.
SlugOf(g, title) ==
    LET l == toLowerCase(title)
        inner == {n \in 2..Len(l) : /\ Alnum(l[n]) /\ ~Alnum(l[n - 1])
                                    /\ \E j \in 1..(n - 1) : Alnum(l[j])}
    IN  /\ SelectSeq(g, Alnum) = SelectSeq(l, Alnum)
        /\ Len(SelectSeq(g, LAMBDA c : c = "-")) = Cardinality(inner)

MasterSlug ==
    <<"h", "o", "w", "-", "t", "o", "-", "m", "a", "s", "t", "e", "r", "-", "k", "o",
      "r", "e", "a", "n", "-", "p", "a", "r", "t", "i", "c", "l", "e", "s">>
DashesSlug ==
    <<"l", "e", "a", "d", "i", "n", "g", "-", "t", "r", "a", "i", "l", "i", "n", "g",
      "-", "d", "a", "s", "h", "e", "s">>

\* C20: the slug generated from the title of the form has only [a-z0-9-], no two
\* hyphens in a row and none first or last, and is the lower-cased title with its
\* runs of other characters collapsed; the two documented titles give the documented
\* slugs; generating from a generated slug changes nothing; and a submit sends the
\* generated slug exactly when the form's slug is empty, the typed slug otherwise,
\* which is what the row then holds.
C20_Slug ==
    /\ [](LET g == generateSlug(formTitle)
          IN  /\ SlugShape(g)
              /\ SlugOf(g, formTitle)
              /\ generateSlug(g) = g
              /\ formTitle = MasterTitle => g = MasterSlug
              /\ formTitle = DashesTitle => g = DashesSlug)
    /\ [][/\ (payload = NoPayload /\ payload' # NoPayload) =>
               /\ formSlug # <<>> => payload'.slug = formSlug
               /\ formSlug = <<>> =>
                    /\ SlugShape(payload'.slug)
                    /\ SlugOf(payload'.slug, formTitle)
          /\ blogRow' # blogRow => blogRow' = payload]_vars

\* The form was submitted with the title "  Leading/Trailing--Dashes  " and no slug,
\* and the row holds the generated slug.
C20_Witness ==
    /\ blogRow.title = DashesTitle
    /\ blogRow.slug = DashesSlug

----------------------------------------------------------------------------
(* Properties of the response cleanup *)

\* C21: a JSON text parses to its own value whether it comes bare or in fences, and
\* a text that is no JSON ends in a thrown error, never in a value.
C21_CleanupTransparent ==
    cleanResult # NotCalled =>
        /\ aiText \in JsonTexts => cleanResult = ParseJson(aiText)
        /\ aiText \in NonJsonTexts => cleanResult.t = "thrown"

----------------------------------------------------------------------------
(* Properties of the missing keys *)

\* C22: without the OpenAI key no request is ever sent to the AI endpoint, no data is
\* ever proposed and the store is never written; a preview's call that returns closes
\* the dialog; a finished batch over k records has 0 successes and k errors, every
\* record in error with the missing-key message; no update was issued. Without the
\* image host's key no request is sent to it, and an upload that ends leaves the
\* thumbnail as it was and the uploading flag false.
C22_MissingKey ==
    /\ []((panel = "openai" /\ ~apiKey) =>
            /\ ~aiFetched
            /\ enhancedData = NoData
            /\ store = [id \in Ids |-> Data(id, "orig")]
            /\ updateCalls = Zeroes /\ applyReq = NoApply
            /\ BatchDone =>
                 /\ summary = <<0, Len(selected)>>
                 /\ \A p \in DOMAIN results :
                        /\ results[p].status = "error"
                        /\ results[p].error = "OpenAI API Key not found")
    /\ [](~imgKey => ~imgFetched)
    /\ [][/\ ((panel = "openai" /\ ~apiKey) /\ previewReqs' # previewReqs
                 /\ \A id \in Ids : previewReqs'[id] <= previewReqs[id]) =>
               (~showPreview' /\ enhancedData' = NoData)
          /\ (~imgKey /\ upc = "pending" /\ upc' # "pending") =>
               (upc' = "failed" /\ thumbnail' = thumbnail /\ ~isUploading')]_vars

\* Without either key: a batch over two records has ended with two errors, and an
\* upload into a form that held a thumbnail has failed.
C22_Witness ==
    /\ ~apiKey /\ ~imgKey
    /\ BatchDone /\ Len(selected) = 2 /\ summary = <<0, 2>>
    /\ upc = "failed" /\ thumbnail = "old" /\ ~isUploading


----------------------------------------------------------------------------
(* Properties of the list pages *)

\* The step in which handleSubmit resumes with the given answer.
SubmitAnswered(a) == submitReq.st = a /\ submitReq'.st = "none"

\* The step in which handleDelete(id) resumes with the given answer.
DeleteAnswered(id, a) == dels[id] = a /\ dels'[id] = "none"

\* The step has called the fetch of the table, which is awaiting its query.
Refetched ==
    /\ Len(fetches') = Len(fetches) + 1
    /\ fetches'[Len(fetches')] = Sent
    /\ loading'

\* The step has left the form as resetForm() leaves it.
FormReset == ~isDialogOpen' /\ formData' = "" /\ editingId' = 0

\* The step has started no fetch and has left the list and the form alone.
NothingRefreshed == fetches' = fetches /\ items' = items /\ formVars' = formVars

\* C23 (as stated): every create, update or delete that the store accepts starts a
\* refetch of the table and resets the form; one that the store refuses starts no
\* refetch, leaves the list in memory as it was and keeps the form with its values;
\* either way the submitting flag, or deletingId, is idle again.
C23_Stated ==
    [][/\ SubmitAnswered("ok") => Refetched /\ FormReset /\ ~submitting'
       /\ SubmitAnswered("error") => NothingRefreshed /\ ~submitting'
       /\ \A id \in AllIds :
            /\ DeleteAnswered(id, "ok") => Refetched /\ FormReset /\ deletingId' = 0
            /\ DeleteAnswered(id, "error") => NothingRefreshed /\ deletingId' = 0]_vars

\* C23 (amended): an accepted create or update starts a refetch of the table and
\* resets the form; an accepted delete starts a refetch and leaves the form as it
\* is; a refused create, update or delete starts no refetch and leaves the list in
\* memory and the form as they were; either way the submitting flag, or deletingId,
\* is idle again.
C23_Mutations ==
    [][/\ SubmitAnswered("ok") => Refetched /\ FormReset /\ ~submitting'
       /\ SubmitAnswered("error") => NothingRefreshed /\ ~submitting'
       /\ \A id \in AllIds :
            /\ DeleteAnswered(id, "ok") =>
                 Refetched /\ formVars' = formVars /\ deletingId' = 0
            /\ DeleteAnswered(id, "error") => NothingRefreshed /\ deletingId' = 0]_vars

\* An insert and a delete have both been accepted and their handlers have ended,
\* with a form open and filled in.
C23_Witness ==
    /\ NewId \in dbRows
    /\ \E id \in CrudIds : id \notin dbRows
    /\ submitReq = NoReq
    /\ \A id \in AllIds : dels[id] = "none"
    /\ Len(fetches) = 3
    /\ ~submitting
    /\ deletingId = 0
    /\ isDialogOpen
    /\ formData = "typed"


----------------------------------------------------------------------------
(* Properties of the bulk upload *)

\* The value is a string with text in it.
HasText(v) == v.t = "string" /\ v.n > 0

\* The record or item holds both primary fields.
BothFields(rec) == rec # Null /\ HasText(rec.korean_word) /\ HasText(rec.bangla_meaning)

\* Every record sent to the store holds a non-empty korean_word and a non-empty
\* bangla_meaning; the preview holds no invalid item; no insert is made without a
\* valid item; every insert carries the record of each item of the preview; and
\* there is at most one onSuccess() per insert, none while one is awaited before
\* it has returned without error.
C24_OnlyValid ==
    /\ \A c \in DOMAIN insertCalls :
         /\ insertCalls[c] # <<>>
         /\ \A p \in DOMAIN insertCalls[c] : BothFields(insertCalls[c][p])
    /\ \A p \in DOMAIN previewData : BothFields(previewData[p])
    /\ onSuccessCalls <= Len(insertCalls)
    /\ bulkReq \in {"sent", "error", "throws"} => onSuccessCalls < Len(insertCalls)

\* One run of handleUpload makes one insert call, which carries the primary
\* fields of exactly the items of the preview, in their order; and onSuccess() is
\* called only in the step in which the insert has returned without error.
C24_SingleInsert ==
    [][/\ insertCalls' # insertCalls =>
            /\ Len(insertCalls') = Len(insertCalls) + 1
            /\ SubSeq(insertCalls', 1, Len(insertCalls)) = insertCalls
            /\ LET sent == insertCalls'[Len(insertCalls')]
               IN  /\ Len(sent) = Len(previewData)
                   /\ \A p \in DOMAIN sent :
                        /\ sent[p].korean_word = previewData[p].korean_word
                        /\ sent[p].bangla_meaning = previewData[p].bangla_meaning
       /\ onSuccessCalls' # onSuccessCalls =>
            bulkReq = "ok" /\ onSuccessCalls' = onSuccessCalls + 1]_vars

\* C24: the bulk upload writes only valid records, excludes the invalid items
\* from the preview and from the insert, makes no insert without a valid item,
\* sends the valid items in one insert call, and calls onSuccess() only when
\* that insert has returned no error.
C24_BulkUpload == []C24_OnlyValid /\ C24_SingleInsert

\* An array with a valid and an invalid item was pasted and parsed, its valid item
\* was uploaded and the store accepted it.
C24_Witness ==
    /\ jsonInput.t = "array"
    /\ \E p \in DOMAIN jsonInput.v : ~BothFields(jsonInput.v[p])
    /\ Len(previewData) = 1
    /\ bulkError
    /\ Len(insertCalls) = 1
    /\ onSuccessCalls = 1
    /\ bulkReq = "none"


----------------------------------------------------------------------------
(* Properties of the record statuses, of previews in flight and of the       *)
(* processing flag                                                           *)

\* The statuses of the records of the batch, by position.
StatusOf(res) == [p \in DOMAIN res |-> res[p].status]

\* C25: in the step that starts a batch every record is pending, but for the first,
\* which the same step has already taken up; in every later step of the batch the
\* records stay the same, a status changes only from pending to processing, for
\* the record the step takes up, or from processing to success or error, for the
\* record the step has finished; so success and error are final, and the step
\* leaves the statuses of all other records as they were.
C25_StatusForward ==
    [][/\ (bpc = "idle" /\ bpc' # "idle") =>
            \A p \in DOMAIN results' :
                results'[p].status = IF p = i' + 1 THEN "processing" ELSE "pending"
       /\ bpc # "idle" =>
            /\ [p \in DOMAIN results' |-> results'[p].id]
                 = [p \in DOMAIN results |-> results[p].id]
            /\ \A p \in DOMAIN results :
                 \/ results'[p].status = results[p].status
                 \/ /\ results[p].status = "pending"
                    /\ results'[p].status = "processing"
                    /\ p = i' + 1
                 \/ /\ results[p].status = "processing"
                    /\ results'[p].status \in FinalStatus
                    /\ p = i + 1
       /\ (bpc = "idle" /\ bpc' = "idle") => StatusOf(results') = StatusOf(results)]_vars

\* A batch is at its second record: the first has ended, the third is pending.
C25_Witness ==
    /\ bpc # "idle"
    /\ Len(results) = 3
    /\ results[1].status \in FinalStatus
    /\ results[2].status = "processing"
    /\ results[3].status = "pending"


\* The step in which apply issues its update.
ApplyIssued == applyReq' # NoApply /\ applyReq' # applyReq

\* The update that apply issues carries data that was generated for the record it
\* is written to.
ApplyWritesOwnData == [][ApplyIssued => applyReq'.data.for = applyReq'.id]_vars

\* C27: the update that apply issues for previewVocab carries data that the
\* enrichment call of a preview made for that same record, also when the answers of
\* two previews are outstanding and arrive in any order; and the answer to a
\* preview of another record than the one on show does not close the dialog.
C27_ApplyOwnData ==
    [][/\ ApplyIssued => applyReq'.data.for = applyReq'.id
       /\ \A id \in Ids :
            (previewReqs'[id] < previewReqs[id] /\ id # previewVocab /\ showPreview)
                => showPreview']_vars


\* C28: while a batch runs the processing flag is true; a click changes the state
\* of the batch (starts one) only while no batch runs and the flag is false; and
\* while a batch runs the flag becomes false only in the step that ends the batch.
C28_OneBatch ==
    /\ [](BatchRunning => isProcessing)
    /\ [][/\ (gestures' # gestures /\ <<batchVars, results>>' # <<batchVars, results>>)
                => (~BatchRunning /\ ~isProcessing /\ isProcessing')
          /\ (BatchRunning /\ isProcessing /\ ~isProcessing') => ~BatchRunning']_vars

\* A batch of the OpenAI panel runs while the dialog shows the proposal of a
\* preview: the Apply button, which shares the flag, is disabled.
C28_Witness ==
    /\ panel = "openai"
    /\ BatchRunning
    /\ isProcessing
    /\ showPreview
    /\ enhancedData # NoData
    /\ applyReq = NoApply


----------------------------------------------------------------------------
(* Properties of the list pages under failures and overlapping requests *)

\* The step in which the fetch numbered k resumes with the error of its query.
FetchFailed(k) == fetches[k].st = "failed" /\ fetches'[k].st = "thrown"

\* C26: the step in which a handler of the list page meets the failure of its
\* store call, returned as an error value or thrown by a rejected promise, leaves
\* its busy indicator idle: loading after a fetch, submitting after a submit,
\* deletingId after a delete; and a failed fetch leaves the list as it was.
C26_NeverStuck ==
    [][/\ \A k \in DOMAIN fetches : FetchFailed(k) => ~loading' /\ items' = items
       /\ (SubmitAnswered("error") \/ SubmitAnswered("throws")) => ~submitting'
       /\ \A id \in AllIds :
            (DeleteAnswered(id, "error") \/ DeleteAnswered(id, "throws"))
                => deletingId' = 0]_vars

\* No insert, update or delete is awaited.
NoMutationInFlight == submitReq = NoReq /\ \A id \in AllIds : dels[id] = "none"

\* Once every fetch has returned its data and no mutation is awaited, the list in
\* memory holds the rows of the table.
ListConverges ==
    ((\A k \in DOMAIN fetches : fetches[k].st = "done") /\ NoMutationInFlight)
        => items = dbRows

\* loading is false only when no fetch is in flight.
LoadingWhileFetching == ~loading => \A k \in DOMAIN fetches : ~InFlight(fetches[k])

\* C29: once every fetch has returned its data and no mutation is awaited, the
\* list in memory holds the rows of the table; and loading is false only when no
\* fetch is in flight.
C29_Converges == ListConverges /\ LoadingWhileFetching

\* C30: while the delete of a row is awaited deletingId is not null, and it is the
\* id of that row, so that the Edit buttons and the row's Delete button are disabled.
C30_DeletingId ==
    \A id \in AllIds : dels[id] # "none" => deletingId # 0 /\ deletingId = id

====
